---- MODULE Spec2Model ----
(***************************************************************************)
(* Model of the tether authentication gateway                              *)
(* (backend/core/auth/service.py, dependecies.py, routes.py).              *)
(*                                                                         *)
(* fb  : the identity provider's accounts (Firebase Authentication)        *)
(* db  : the local document store, collection "users" (backend/db/models)  *)
(* task: the register_user coroutines, one step per suspension point       *)
(* resp: the response in flight of the request handled last               *)
(* prev: a summary of the request answered before it                       *)
(* clock: the value datetime.utcnow() returned last                        *)
(*                                                                         *)
(* SpecReg runs two register_user coroutines concurrently, interleaved at  *)
(* their provider and store calls. Spec runs the handlers one at a time;   *)
(* SpecAcct runs the handlers of an account's life (registration,          *)
(* verification, deletion), SpecRec the handlers that write a local record *)
(* after its creation, SpecAll all of them.                                *)
(* Neither the provider nor the store is part of the repository: every     *)
(* call to them takes an environment choice ("none" = answers according    *)
(* to its state, anything else = the failure named).                       *)
(***************************************************************************)
EXTENDS Integers, Sequences, FiniteSets, TLC

VARIABLES fb, db, task, resp, prev, clock

vars == <<fb, db, task, resp, prev, clock>>

----------------------------------------------------------------------------
(* Bounds *)

\* uids the provider can issue (create_user calls that succeed)
MaxUid == 1

\* values datetime.utcnow() can take during one behaviour
MaxClock == 1

Usernames == {"alice", "bob"}
Emails == {"a@x", "b@x"}
Passwords == {"pw1", "pw2"}
Tasks == {1, 2}

----------------------------------------------------------------------------
(* Exception classes: backend/core/errors.py, and what the provider SDK and *)
(* the libraries raise. Parent is the base class of each.                   *)

Parent ==
  [c \in {"TetherException", "Exception"} |-> "Exception"] @@
  [c \in {"AuthenticationException", "AuthorizationException",
          "ResourceException", "ValidationException", "OperationException",
          "RateLimitException", "AccountException"} |-> "TetherException"] @@
  [c \in {"InvalidCredentialsException", "InvalidTokenException",
          "ExpiredTokenException", "MissingTokenException",
          "InvalidRefreshTokenException"} |-> "AuthenticationException"] @@
  [c \in {"EmailNotVerifiedException"} |-> "AuthorizationException"] @@
  [c \in {"ResourceNotFoundException"} |-> "ResourceException"] @@
  [c \in {"UserNotFoundException"} |-> "ResourceNotFoundException"] @@
  [c \in {"UserNotFoundInDatabaseException"} |-> "UserNotFoundException"] @@
  [c \in {"EmailAlreadyExistsException", "UsernameAlreadyExistsException",
          "InvalidPasswordException"} |-> "ValidationException"] @@
  [c \in {"RegistrationFailedException", "LoginFailedException",
          "TokenRefreshFailedException", "PasswordUpdateFailedException",
          "EmailVerificationFailedException", "UserDeletionFailedException",
          "UserRetrievalFailedException"} |-> "OperationException"] @@
  [c \in {"AccountDisabledException"} |-> "AccountException"] @@
  \* firebase_admin.auth and library errors
  [c \in {"auth.UserNotFoundError", "auth.EmailAlreadyExistsError",
          "auth.InvalidIdTokenError", "FirebaseError", "ConnectionError",
          "DuplicateKeyError", "StoreError", "ValueError",
          "HTTPException"} |-> "Exception"] @@
  [c \in {"auth.ExpiredIdTokenError"} |-> "auth.InvalidIdTokenError"]

RECURSIVE IsA(_, _)
\* isinstance(e, c): the test an except clause makes
IsA(e, c) ==
  IF e = c THEN TRUE
  ELSE IF e = "Exception" THEN FALSE
  ELSE IsA(Parent[e], c)

\* no exception pending / the call returned
OK == "ok"

\* error_code of an exception class: the literal its __init__ passes up, or
\* the class name (TetherException.__init__)
ErrorCode(c) ==
  CASE c = "InvalidCredentialsException" -> "INVALID_CREDENTIALS"
    [] c = "InvalidTokenException" -> "INVALID_TOKEN"
    [] c = "ExpiredTokenException" -> "EXPIRED_TOKEN"
    [] c = "MissingTokenException" -> "MISSING_TOKEN"
    [] c = "InvalidRefreshTokenException" -> "INVALID_REFRESH_TOKEN"
    [] c = "EmailNotVerifiedException" -> "EMAIL_NOT_VERIFIED"
    [] IsA(c, "ResourceNotFoundException") -> "RESOURCE_NOT_FOUND"
    [] c = "EmailAlreadyExistsException" -> "EMAIL_ALREADY_EXISTS"
    [] c = "UsernameAlreadyExistsException" -> "USERNAME_ALREADY_EXISTS"
    [] c = "InvalidPasswordException" -> "INVALID_PASSWORD"
    [] c = "RegistrationFailedException" -> "REGISTRATION_FAILED"
    [] c = "LoginFailedException" -> "LOGIN_FAILED"
    [] c = "TokenRefreshFailedException" -> "TOKEN_REFRESH_FAILED"
    [] c = "EmailVerificationFailedException" -> "EMAIL_VERIFICATION_FAILED"
    [] c = "PasswordUpdateFailedException" -> "PASSWORD_UPDATE_FAILED"
    [] c = "UserDeletionFailedException" -> "USER_DELETION_FAILED"
    [] c = "UserRetrievalFailedException" -> "USER_RETRIEVAL_FAILED"
    [] c = "RateLimitException" -> "RATE_LIMIT_EXCEEDED"
    [] c = "AccountDisabledException" -> "ACCOUNT_DISABLED"
    [] OTHER -> c

\* An exception object: its class, the literal part of its message (fmt), the
\* exception whose str() is interpolated into the message (leak, "" if none)
\* and the exception whose str() its details carry (details, "" if none).
NoErr == [class |-> "", fmt |-> "", leak |-> "", details |-> ""]

\* c(): raised with the default message of its class
Raised(c) == [class |-> c, fmt |-> "default", leak |-> "", details |-> ""]

\* str(e) of a caught exception of class e raised with its own text: the
\* text of a library error is internal, a TetherException's is its message
Str(e) == IF IsA(e, "TetherException") THEN "" ELSE e

\* c(message=f"<fmt>{str(e)}"), inner being the text interpolated
RaisedWith(c, fmt, inner) ==
  [class |-> c, fmt |-> fmt, leak |-> inner, details |-> ""]

\* c(message=f"<fmt>{str(e)}", details={"error": str(e)})
RaisedWithDetails(c, fmt, inner) ==
  [class |-> c, fmt |-> fmt, leak |-> inner, details |-> inner]

\* tether_exception_handler(request, exc): the JSON body of the response
tether_exception_handler(err) ==
  [error |-> [fmt |-> err.fmt, leak |-> err.leak],
   error_code |-> ErrorCode(err.class),
   details |-> err.details]

----------------------------------------------------------------------------
(* The provider (firebase_admin.auth) and the store (beanie Document)      *)

\* auth.create_user(email, password, email_verified=False)
fb_create_user(fbs, email, password, fault) ==
  LET uid == Cardinality(DOMAIN fbs) + 1 IN
  IF fault # "none" THEN [exc |-> fault, fb |-> fbs, uid |-> 0]
  ELSE IF \E u \in DOMAIN fbs : fbs[u].alive /\ fbs[u].email = email
    THEN [exc |-> "auth.EmailAlreadyExistsError", fb |-> fbs, uid |-> 0]
  ELSE [exc |-> OK,
        fb |-> fbs @@ (uid :> [email |-> email, password |-> password,
                               email_verified |-> FALSE, alive |-> TRUE]),
        uid |-> uid]

\* auth.delete_user(uid)
fb_delete_user(fbs, uid, fault) ==
  IF fault # "none" THEN [exc |-> fault, fb |-> fbs]
  ELSE IF uid \notin DOMAIN fbs \/ ~fbs[uid].alive
    THEN [exc |-> "auth.UserNotFoundError", fb |-> fbs]
  ELSE [exc |-> OK, fb |-> [fbs EXCEPT ![uid].alive = FALSE]]

\* auth.get_user(uid)
fb_get_user(fbs, uid, fault) ==
  IF fault # "none" THEN [exc |-> fault, email |-> "", email_verified |-> FALSE]
  ELSE IF uid \notin DOMAIN fbs \/ ~fbs[uid].alive
    THEN [exc |-> "auth.UserNotFoundError", email |-> "", email_verified |-> FALSE]
  ELSE [exc |-> OK, email |-> fbs[uid].email,
        email_verified |-> fbs[uid].email_verified]

\* Users(...).insert(): the unique indexes on username, email, firebase_uid
db_insert(dbs, doc, fault) ==
  IF fault # "none" THEN [exc |-> fault, db |-> dbs]
  ELSE IF \E d \in dbs : \/ d.username = doc.username
                         \/ d.email = doc.email
                         \/ d.firebase_uid = doc.firebase_uid
    THEN [exc |-> "DuplicateKeyError", db |-> dbs]
  ELSE [exc |-> OK, db |-> dbs \cup {doc}]

\* the document a Users.find_one(Users.firebase_uid == uid) returns, if any
find_by_uid(dbs, uid) == {d \in dbs : d.firebase_uid = uid}

\* the document a Users.find_one(Users.email == email) returns, if any
find_by_email(dbs, email) == {d \in dbs : d.email = email}

\* the document a Users.find_one(Users.username == username) returns, if any
find_by_username(dbs, username) == {d \in dbs : d.username = username}

----------------------------------------------------------------------------
(* register_user, one operator per step between two suspension points.     *)
(* A step takes the state s = [fb, db, tk] and the environment's choice    *)
(* and returns the state after it.                                         *)

RegRequests == [username : Usernames, email : Emails, password : Passwords]

NoRequest == [username |-> "", email |-> "", password |-> ""]

\* a coroutine that has not been called
IdleTask ==
  [pc |-> "idle", req |-> NoRequest, uid |-> 0, out |-> "",
   inserted |-> FALSE, insert_failed |-> FALSE,
   del_uid |-> 0, del_ok |-> FALSE, faults |-> {}, session_ev |-> FALSE,
   cause |-> "", err |-> NoErr]

\* reg_except without the compensating branch
reg_except_no_cleanup(s, exc) ==
  IF IsA(exc, "auth.EmailAlreadyExistsError")
    THEN [s EXCEPT !.tk.pc = "done", !.tk.out = "EmailAlreadyExistsException"]
  ELSE IF IsA(exc, "UsernameAlreadyExistsException")
          \/ IsA(exc, "EmailAlreadyExistsException")
    THEN [s EXCEPT !.tk.pc = "done", !.tk.out = exc]
  ELSE [s EXCEPT !.tk.pc = "done", !.tk.out = "RegistrationFailedException"]

\* the except clauses of register_user for an exception raised in its body
reg_except(s, exc) ==
  IF IsA(exc, "auth.EmailAlreadyExistsError")
    THEN [s EXCEPT !.tk.pc = "done", !.tk.out = "EmailAlreadyExistsException",
                   !.tk.err = Raised("EmailAlreadyExistsException")]
  ELSE IF IsA(exc, "UsernameAlreadyExistsException")
          \/ IsA(exc, "EmailAlreadyExistsException")
    THEN [s EXCEPT !.tk.pc = "done", !.tk.out = exc, !.tk.err = Raised(exc)]
  ELSE IF s.tk.uid # 0          \* 'firebase_user' in locals()
    THEN [s EXCEPT !.tk.pc = "cleanup", !.tk.cause = exc]
  ELSE [s EXCEPT !.tk.pc = "done", !.tk.out = "RegistrationFailedException",
                 !.tk.cause = exc,
                 !.tk.err = RaisedWithDetails("RegistrationFailedException",
                                              "Registration failed: ", Str(exc))]

\* the fault, if any, recorded in the coroutine's history
noted(s, step, fault) ==
  IF fault = "none" THEN s
  ELSE [s EXCEPT !.tk.faults = @ \cup {step}]

\* reg_find_one going on to create the account whatever the lookup returns
reg_find_one_no_lookup(s0, fault) ==
  LET s == noted(s0, "find_one", fault) IN
  IF fault # "none" THEN reg_except(s, fault)
  ELSE [s EXCEPT !.tk.pc = "create_user"]

\* existing_user = await Users.find_one(Users.username == username)
reg_find_one(s0, fault) ==
  LET s == noted(s0, "find_one", fault) IN
  IF fault # "none" THEN reg_except(s, fault)
  ELSE IF find_by_username(s.db, s.tk.req.username) # {}
    THEN reg_except(s, "UsernameAlreadyExistsException")
  ELSE [s EXCEPT !.tk.pc = "create_user"]

\* reg_create_user compensating a rejected creation: the account that holds
\* the e-mail is deleted before EmailAlreadyExistsException is raised
reg_create_user_deleting_existing(s0, fault) ==
  LET s == noted(s0, "create_user", fault)
      r == fb_create_user(s.fb, s.tk.req.email, s.tk.req.password, fault)
      owners == {u \in DOMAIN s.fb :
                   s.fb[u].alive /\ s.fb[u].email = s.tk.req.email} IN
  IF r.exc = "auth.EmailAlreadyExistsError"
    THEN reg_except([s EXCEPT !.fb = [u \in DOMAIN s.fb |->
                                        IF u \in owners
                                          THEN [s.fb[u] EXCEPT !.alive = FALSE]
                                          ELSE s.fb[u]],
                              !.tk.del_uid = CHOOSE u \in owners : TRUE,
                              !.tk.del_ok = TRUE], r.exc)
  ELSE IF r.exc # OK THEN reg_except(s, r.exc)
  ELSE [s EXCEPT !.fb = r.fb, !.tk.uid = r.uid, !.tk.pc = "insert"]

\* firebase_user = auth.create_user(...)
reg_create_user(s0, fault) ==
  LET s == noted(s0, "create_user", fault)
      r == fb_create_user(s.fb, s.tk.req.email, s.tk.req.password, fault) IN
  IF r.exc # OK THEN reg_except(s, r.exc)
  ELSE [s EXCEPT !.fb = r.fb, !.tk.uid = r.uid, !.tk.pc = "insert"]

\* reg_insert going on to the token exchange although the insert failed
reg_insert_unchecked(s0, fault) ==
  LET s == noted(s0, "insert", fault)
      doc == [username |-> s.tk.req.username, email |-> s.tk.req.email,
              firebase_uid |-> s.tk.uid, email_verified |-> FALSE,
              last_login |-> 0]
      r == db_insert(s.db, doc, fault) IN
  IF r.exc # OK THEN [s EXCEPT !.tk.insert_failed = TRUE, !.tk.pc = "exchange"]
  ELSE [s EXCEPT !.db = r.db, !.tk.inserted = TRUE, !.tk.pc = "exchange"]

\* reg_insert storing the record without the uid of the account created
reg_insert_without_uid(s0, fault) ==
  LET s == noted(s0, "insert", fault)
      doc == [username |-> s.tk.req.username, email |-> s.tk.req.email,
              firebase_uid |-> 0, email_verified |-> FALSE,
              last_login |-> 0]
      r == db_insert(s.db, doc, fault) IN
  IF r.exc # OK THEN reg_except([s EXCEPT !.tk.insert_failed = TRUE], r.exc)
  ELSE [s EXCEPT !.db = r.db, !.tk.inserted = TRUE, !.tk.pc = "exchange"]

\* await new_user.insert()
reg_insert(s0, fault) ==
  LET s == noted(s0, "insert", fault)
      doc == [username |-> s.tk.req.username, email |-> s.tk.req.email,
              firebase_uid |-> s.tk.uid, email_verified |-> FALSE,
              last_login |-> 0]
      r == db_insert(s.db, doc, fault) IN
  IF r.exc # OK THEN reg_except([s EXCEPT !.tk.insert_failed = TRUE], r.exc)
  ELSE [s EXCEPT !.db = r.db, !.tk.inserted = TRUE, !.tk.pc = "exchange"]

\* auth.create_custom_token(uid); await self._exchange_custom_token(...)
reg_exchange(s0, fault) ==
  LET s == noted(s0, "exchange", fault) IN
  IF fault # "none" THEN reg_except(s, fault)
  ELSE [s EXCEPT !.tk.pc = "send_email"]

\* error codes the provider's REST endpoints answer with a non-200 status
RestErrors == {"INVALID_ID_TOKEN", "TOO_MANY_ATTEMPTS_TRY_LATER"}

\* FirebaseAuthService.send_email_verification(id_token): the exception it
\* raises, if any, for what requests.post answers or raises
send_email_verification(fault) ==
  LET raised == IF fault \in RestErrors
                  THEN "EmailVerificationFailedException"
                  ELSE fault IN
  IF fault = "none" THEN OK
  ELSE IF IsA(raised, "EmailVerificationFailedException") THEN raised
  ELSE "EmailVerificationFailedException"

\* reg_send_email letting the failure of the verification e-mail escape
reg_send_email_fatal(s0, fault) ==
  LET s == noted(s0, "send_email", fault) IN
  IF send_email_verification(fault) # OK
    THEN reg_except(s, send_email_verification(fault))
    ELSE [s EXCEPT !.tk.pc = "done", !.tk.out = "session",
                   !.tk.session_ev = FALSE]

\* reg_send_email answering with the provider's flag of the new account
reg_send_email_live_flag(s0, fault) ==
  LET s == noted(s0, "send_email", fault) IN
  IF /\ send_email_verification(fault) # OK
     /\ ~IsA(send_email_verification(fault), "EmailVerificationFailedException")
    THEN reg_except(s, send_email_verification(fault))
    ELSE [s EXCEPT !.tk.pc = "done", !.tk.out = "session",
                   !.tk.session_ev = s.fb[s.tk.uid].email_verified]

\* try: await self.send_email_verification(idToken)
\* except EmailVerificationFailedException: log; return AuthResponse(...)
reg_send_email(s0, fault) ==
  LET s == noted(s0, "send_email", fault) IN
  IF /\ send_email_verification(fault) # OK
     /\ ~IsA(send_email_verification(fault), "EmailVerificationFailedException")
    THEN reg_except(s, send_email_verification(fault))
    ELSE [s EXCEPT !.tk.pc = "done", !.tk.out = "session",
                   !.tk.session_ev = FALSE]

\* reg_cleanup deleting the account of the request's email instead of its own
reg_cleanup_by_email(s0, fault) ==
  LET s == noted(s0, "cleanup", fault)
      victims == {u \in DOMAIN s.fb : s.fb[u].alive /\ u # s.tk.uid}
      v == IF victims = {} THEN 0 ELSE CHOOSE u \in victims : TRUE
      r == fb_delete_user(s.fb, v, fault) IN
  [s EXCEPT !.fb = r.fb,
            !.tk.del_uid = v,
            !.tk.del_ok = (r.exc = OK),
            !.tk.pc = "done",
            !.tk.out = "RegistrationFailedException"]

\* reg_cleanup without the inner try/except: a failing delete escapes
reg_cleanup_surfaced(s0, fault) ==
  LET s == noted(s0, "cleanup", fault)
      r == fb_delete_user(s.fb, s.tk.uid, fault) IN
  IF r.exc # OK
    THEN [s EXCEPT !.tk.del_uid = s.tk.uid, !.tk.del_ok = FALSE,
                   !.tk.pc = "done", !.tk.out = r.exc,
                   !.tk.err = Raised(r.exc)]
    ELSE [s EXCEPT !.fb = r.fb, !.tk.del_uid = s.tk.uid, !.tk.del_ok = TRUE,
                   !.tk.pc = "done",
                   !.tk.out = "RegistrationFailedException",
                   !.tk.err = RaisedWithDetails("RegistrationFailedException",
                                                "Registration failed: ",
                                                Str(s.tk.cause))]

\* the generic except clause: auth.delete_user(firebase_user.uid), swallowed
reg_cleanup(s0, fault) ==
  LET s == noted(s0, "cleanup", fault)
      r == fb_delete_user(s.fb, s.tk.uid, fault) IN
  [s EXCEPT !.fb = r.fb,
            !.tk.del_uid = s.tk.uid,
            !.tk.del_ok = (r.exc = OK),
            !.tk.pc = "done",
            !.tk.out = "RegistrationFailedException",
            !.tk.err = RaisedWithDetails("RegistrationFailedException",
                                         "Registration failed: ",
                                         Str(s.tk.cause))]

----------------------------------------------------------------------------
(* Bearer tokens. A token carries the claims it was issued with; "good"    *)
(* passes the SDK's check, "expired" has a valid signature and is past its *)
(* expiry, "forged" has claims that the signature does not cover.          *)

TokenKinds == {"good", "expired", "forged"}

NoToken == [kind |-> "absent", uid |-> 0, email |-> "", email_verified |-> FALSE]

\* an Authorization header whose bearer token is the empty string
EmptyToken == [kind |-> "empty", uid |-> 0, email |-> "", email_verified |-> FALSE]

NoClaims == [uid |-> 0, email |-> "", email_verified |-> FALSE]

\* the tokens that can exist for the accounts the provider has issued
Tokens(fbs) ==
  {[kind |-> k, uid |-> u, email |-> fbs[u].email, email_verified |-> v] :
     k \in TokenKinds, u \in DOMAIN fbs, v \in BOOLEAN}

\* the claims embedded in a token
ClaimsOf(tok) ==
  [uid |-> tok.uid, email |-> tok.email, email_verified |-> tok.email_verified]

\* firebase_admin.auth.verify_id_token(id_token)
sdk_verify_id_token(tok, fault) ==
  IF fault # "none" THEN [exc |-> fault, claims |-> NoClaims]
  ELSE IF tok.kind = "good" THEN [exc |-> OK, claims |-> ClaimsOf(tok)]
  ELSE IF tok.kind = "expired"
    THEN [exc |-> "auth.ExpiredIdTokenError", claims |-> NoClaims]
  ELSE IF tok.kind = "empty"
    THEN [exc |-> "ValueError", claims |-> NoClaims]
  ELSE [exc |-> "auth.InvalidIdTokenError", claims |-> NoClaims]

\* FirebaseAuthService.verify_token
verify_token(tok, fault) ==
  LET r == sdk_verify_id_token(tok, fault) IN
  IF r.exc = OK THEN [exc |-> OK, claims |-> r.claims, err |-> NoErr]
  ELSE IF IsA(r.exc, "auth.InvalidIdTokenError")
    THEN [exc |-> "InvalidTokenException", claims |-> NoClaims,
          err |-> Raised("InvalidTokenException")]
  ELSE IF IsA(r.exc, "auth.ExpiredIdTokenError")
    THEN [exc |-> "ExpiredTokenException", claims |-> NoClaims,
          err |-> Raised("ExpiredTokenException")]
  ELSE [exc |-> "InvalidTokenException", claims |-> NoClaims,
        err |-> RaisedWith("InvalidTokenException",
                           "Token verification failed: ", Str(r.exc))]

----------------------------------------------------------------------------
(* Reconciliation                                                          *)

\* what the provider and the store answer during one reconciliation
SyncEnvs ==
  {e \in [get_user : {"none", "FirebaseError", "auth.UserNotFoundError"},
          find_one : {"none", "StoreError"},
          save : {"none", "StoreError"}] :
     Cardinality({f \in {"get_user", "find_one", "save"} : e[f] # "none"}) <= 1}

SyncOK == [get_user |-> "none", find_one |-> "none", save |-> "none"]

\* db_set_verified storing the document without its firebase_uid
db_set_verified_dropping_uid(dbs, d, v) ==
  (dbs \ {d}) \cup {[d EXCEPT !.email_verified = v, !.firebase_uid = 0]}

\* the document with email_verified replaced, as db_user.save() stores it
db_set_verified(dbs, d, v) ==
  (dbs \ {d}) \cup {[d EXCEPT !.email_verified = v]}

\* sync_email_verification_status saving whenever a local record exists
sync_always_save(fbs, dbs, uid, env) ==
  LET u == fb_get_user(fbs, uid, env.get_user)
      docs == find_by_uid(dbs, uid)
      d == CHOOSE x \in docs : TRUE IN
  IF u.exc # OK
    THEN IF IsA(u.exc, "auth.UserNotFoundError")
           THEN [exc |-> "UserNotFoundException", ret |-> FALSE, db |-> dbs, writes |-> 0, failed |-> TRUE]
           ELSE [exc |-> OK, ret |-> FALSE, db |-> dbs, writes |-> 0, failed |-> TRUE]
  ELSE IF env.find_one # "none"
    THEN [exc |-> OK, ret |-> FALSE, db |-> dbs, writes |-> 0, failed |-> TRUE]
  ELSE IF docs # {}
    THEN IF env.save # "none"
           THEN [exc |-> OK, ret |-> FALSE, db |-> dbs, writes |-> 0, failed |-> TRUE]
           ELSE [exc |-> OK, ret |-> u.email_verified,
                 db |-> db_set_verified(dbs, d, u.email_verified), writes |-> 1,
                 failed |-> FALSE]
  ELSE [exc |-> OK, ret |-> u.email_verified, db |-> dbs, writes |-> 0,
        failed |-> FALSE]

\* sync_email_verification_status never saving
sync_never_save(fbs, dbs, uid, env) ==
  LET u == fb_get_user(fbs, uid, env.get_user) IN
  IF u.exc # OK
    THEN IF IsA(u.exc, "auth.UserNotFoundError")
           THEN [exc |-> "UserNotFoundException", ret |-> FALSE, db |-> dbs, writes |-> 0, failed |-> TRUE]
           ELSE [exc |-> OK, ret |-> FALSE, db |-> dbs, writes |-> 0, failed |-> TRUE]
  ELSE IF env.find_one # "none"
    THEN [exc |-> OK, ret |-> FALSE, db |-> dbs, writes |-> 0, failed |-> TRUE]
  ELSE [exc |-> OK, ret |-> u.email_verified, db |-> dbs, writes |-> 0,
        failed |-> FALSE]

\* sync_email_verification_status creating the local record it did not find
sync_upsert(fbs, dbs, uid, env) ==
  LET u == fb_get_user(fbs, uid, env.get_user)
      docs == find_by_uid(dbs, uid)
      d == CHOOSE x \in docs : TRUE IN
  IF u.exc # OK
    THEN IF IsA(u.exc, "auth.UserNotFoundError")
           THEN [exc |-> "UserNotFoundException", ret |-> FALSE, db |-> dbs, writes |-> 0, failed |-> TRUE]
           ELSE [exc |-> OK, ret |-> FALSE, db |-> dbs, writes |-> 0, failed |-> TRUE]
  ELSE IF env.find_one # "none"
    THEN [exc |-> OK, ret |-> FALSE, db |-> dbs, writes |-> 0, failed |-> TRUE]
  ELSE IF docs = {}
    THEN [exc |-> OK, ret |-> u.email_verified,
          db |-> dbs \cup {[username |-> "", email |-> u.email,
                            firebase_uid |-> uid,
                            email_verified |-> u.email_verified,
                            last_login |-> 0]},
          writes |-> 1, failed |-> FALSE]
  ELSE IF d.email_verified # u.email_verified
    THEN IF env.save # "none"
           THEN [exc |-> OK, ret |-> FALSE, db |-> dbs, writes |-> 0, failed |-> TRUE]
           ELSE [exc |-> OK, ret |-> u.email_verified,
                 db |-> db_set_verified(dbs, d, u.email_verified), writes |-> 1,
                 failed |-> FALSE]
  ELSE [exc |-> OK, ret |-> u.email_verified, db |-> dbs, writes |-> 0,
        failed |-> FALSE]

\* FirebaseAuthService.sync_email_verification_status(uid)
sync_email_verification_status(fbs, dbs, uid, env) ==
  LET u == fb_get_user(fbs, uid, env.get_user)
      docs == find_by_uid(dbs, uid)
      d == CHOOSE x \in docs : TRUE IN
  IF u.exc # OK
    THEN IF IsA(u.exc, "auth.UserNotFoundError")
           THEN [exc |-> "UserNotFoundException", ret |-> FALSE, db |-> dbs, writes |-> 0, failed |-> TRUE]
           ELSE [exc |-> OK, ret |-> FALSE, db |-> dbs, writes |-> 0, failed |-> TRUE]
  ELSE IF env.find_one # "none"
    THEN [exc |-> OK, ret |-> FALSE, db |-> dbs, writes |-> 0, failed |-> TRUE]
  ELSE IF docs # {} /\ d.email_verified # u.email_verified
    THEN IF env.save # "none"
           THEN [exc |-> OK, ret |-> FALSE, db |-> dbs, writes |-> 0, failed |-> TRUE]
           ELSE [exc |-> OK, ret |-> u.email_verified,
                 db |-> db_set_verified(dbs, d, u.email_verified), writes |-> 1,
                 failed |-> FALSE]
  ELSE [exc |-> OK, ret |-> u.email_verified, db |-> dbs, writes |-> 0,
        failed |-> FALSE]

\* what a handler remembers of a reconciliation it ran
NoSync == [called |-> FALSE, exc |-> "", ret |-> FALSE, writes |-> 0,
           failed |-> FALSE]

SyncNote(r) ==
  [called |-> TRUE, exc |-> r.exc, ret |-> r.ret, writes |-> r.writes,
   failed |-> r.failed]

----------------------------------------------------------------------------
(* The authentication dependency                                           *)

\* get_current_user letting a reconciliation error escape
get_current_user_no_try(fbs, dbs, cred, vfault, senv) ==
  LET synced(v, r) ==
        IF r.exc # OK
          THEN [exc |-> r.exc, claims |-> NoClaims, db |-> r.db,
                sync |-> SyncNote(r), err |-> Raised(r.exc)]
          ELSE [exc |-> OK, claims |-> v.claims, db |-> r.db,
                sync |-> SyncNote(r), err |-> NoErr]
      verified(v) ==
        IF v.exc # OK
          THEN [exc |-> v.exc, claims |-> NoClaims, db |-> dbs, sync |-> NoSync,
                err |-> v.err]
          ELSE synced(v, sync_email_verification_status(fbs, dbs, v.claims.uid,
                                                        senv)) IN
  IF cred = NoToken
    THEN [exc |-> "MissingTokenException", claims |-> NoClaims, db |-> dbs,
          sync |-> NoSync, err |-> Raised("MissingTokenException")]
    ELSE verified(verify_token(cred, vfault))

\* FirebaseAuthDependency.get_current_user(credentials)
get_current_user(fbs, dbs, cred, vfault, senv) ==
  LET \* try: await sync(...)  except Exception: pass
      synced(v, r) ==
        IF r.exc = OK \/ IsA(r.exc, "Exception")
          THEN [exc |-> OK, claims |-> v.claims, db |-> r.db,
                sync |-> SyncNote(r), err |-> NoErr]
          ELSE [exc |-> r.exc, claims |-> NoClaims, db |-> r.db,
                sync |-> SyncNote(r), err |-> Raised(r.exc)]
      verified(v) ==
        IF v.exc # OK
          THEN [exc |-> v.exc, claims |-> NoClaims, db |-> dbs, sync |-> NoSync,
                err |-> v.err]
          ELSE synced(v, sync_email_verification_status(fbs, dbs, v.claims.uid,
                                                        senv)) IN
  IF cred = NoToken
    THEN [exc |-> "MissingTokenException", claims |-> NoClaims, db |-> dbs,
          sync |-> NoSync, err |-> Raised("MissingTokenException")]
    ELSE verified(verify_token(cred, vfault))

\* FirebaseAuthDependency.get_current_user_from_db(current_user)
get_current_user_from_db(dbs, claims, fault) ==
  IF claims.uid = 0
    THEN [exc |-> "InvalidTokenException", docs |-> {},
          err |-> RaisedWith("InvalidTokenException",
                             "Invalid token: missing user ID", "")]
  ELSE IF fault # "none" THEN [exc |-> fault, docs |-> {}, err |-> Raised(fault)]
  ELSE IF find_by_uid(dbs, claims.uid) = {}
    THEN [exc |-> "UserNotFoundInDatabaseException", docs |-> {},
          err |-> Raised("UserNotFoundInDatabaseException")]
  ELSE [exc |-> OK, docs |-> find_by_uid(dbs, claims.uid), err |-> NoErr]

----------------------------------------------------------------------------
(* The service's workflows                                                 *)

NoSession == [user_id |-> 0, email |-> "", email_verified |-> FALSE,
              id_token |-> NoToken]

NoUser == [user_id |-> 0, email |-> "", username |-> "",
           email_verified |-> FALSE, last_login |-> 0]

\* POST accounts:signInWithPassword, as requests.post returns or raises
fb_sign_in(fbs, email, password, fault) ==
  LET accts == {u \in DOMAIN fbs : fbs[u].alive /\ fbs[u].email = email}
      u == CHOOSE x \in accts : TRUE IN
  IF fault = "ConnectionError"
    THEN [exc |-> fault, status |-> 0, code |-> "", uid |-> 0]
  ELSE IF fault # "none"
    THEN [exc |-> OK, status |-> 400, code |-> fault, uid |-> 0]
  ELSE IF accts = {}
    THEN [exc |-> OK, status |-> 400, code |-> "EMAIL_NOT_FOUND", uid |-> 0]
  ELSE IF fbs[u].password # password
    THEN [exc |-> OK, status |-> 400, code |-> "INVALID_PASSWORD", uid |-> 0]
  ELSE [exc |-> OK, status |-> 200, code |-> "", uid |-> u]

\* what the provider and the store answer during one login_user
LoginEnvs ==
  {e \in [signin : {"none", "ConnectionError", "TOO_MANY_ATTEMPTS_TRY_LATER"},
          find_one : {"none", "StoreError"},
          save : {"none", "StoreError"},
          sync : SyncEnvs] :
     Cardinality({f \in {"signin", "find_one", "save"} : e[f] # "none"})
       + (IF e.sync = SyncOK THEN 0 ELSE 1) <= 1}

LoginOK == [signin |-> "none", find_one |-> "none", save |-> "none",
            sync |-> SyncOK]

\* the except clauses of login_user
login_except(exc) ==
  IF \/ IsA(exc, "InvalidCredentialsException")
     \/ IsA(exc, "AccountDisabledException")
     \/ IsA(exc, "RateLimitException")
    THEN exc
    ELSE "LoginFailedException"

\* the exception login_user raises for one of class exc caught by them
login_error(exc) ==
  IF login_except(exc) = exc THEN Raised(exc)
  ELSE RaisedWithDetails("LoginFailedException", "Login failed: ", Str(exc))

LoginFail(exc, dbs, signin, sync, ticked) ==
  [exc |-> login_except(exc), session |-> NoSession, db |-> dbs,
   signin |-> signin, sync |-> sync, ticked |-> ticked,
   err |-> login_error(exc)]

\* FirebaseAuthService._format_firebase_error(error_message)
format_firebase_error(error_message) ==
  CASE error_message = "EMAIL_NOT_FOUND" -> "No user found with this email address"
    [] error_message = "INVALID_PASSWORD" -> "Incorrect password"
    [] error_message = "USER_DISABLED" -> "This account has been disabled"
    [] error_message = "TOO_MANY_ATTEMPTS_TRY_LATER" ->
         "Too many failed attempts. Please try again later"
    [] error_message = "EMAIL_EXISTS" -> "Email already registered"
    [] error_message = "INVALID_EMAIL" -> "Invalid email address"
    [] error_message = "WEAK_PASSWORD" ->
         "Password is too weak. Please use at least 6 characters"
    [] OTHER -> error_message

\* LoginRejected choosing the exception class by the provider's error code
LoginRejectedByCode(a, dbs) ==
  [LoginFail(IF a.code = "TOO_MANY_ATTEMPTS_TRY_LATER"
               THEN "RateLimitException"
               ELSE "InvalidCredentialsException",
             dbs, "rejected", NoSync, FALSE)
     EXCEPT !.err.fmt = format_firebase_error(a.code)]

\* raise InvalidCredentialsException(message=formatted_error)
LoginRejected(a, dbs) ==
  [LoginFail("InvalidCredentialsException", dbs, "rejected", NoSync, FALSE)
     EXCEPT !.err.fmt = format_firebase_error(a.code)]

\* db_user.last_login = datetime.utcnow(); await db_user.save()
db_set_last_login(dbs, docs, now) ==
  {IF d \in docs THEN [d EXCEPT !.last_login = now] ELSE d : d \in dbs}

\* login_user answering with the local record's stored flag
login_user_stored_flag(fbs, dbs, email, password, now, env) ==
  LET synced(a, docs, r) ==
        IF r.exc # OK
          THEN LoginFail(r.exc, r.db, "ok", SyncNote(r), docs # {})
          ELSE [exc |-> OK,
                session |-> [user_id |-> a.uid, email |-> email,
                             email_verified |->
                               \E d \in docs : d.email_verified,
                             id_token |-> [kind |-> "good", uid |-> a.uid,
                                           email |-> email,
                                           email_verified |->
                                             fbs[a.uid].email_verified]],
                db |-> r.db, signin |-> "ok", sync |-> SyncNote(r),
                ticked |-> docs # {}, err |-> NoErr]
      found(a, docs) ==
        IF docs # {} /\ env.save # "none"
          THEN LoginFail(env.save, dbs, "ok", NoSync, TRUE)
          ELSE synced(a, docs,
                      sync_email_verification_status(
                        fbs, db_set_last_login(dbs, docs, now), a.uid, env.sync))
      signed(a) ==
        IF a.exc # OK THEN LoginFail(a.exc, dbs, "error", NoSync, FALSE)
        ELSE IF a.status # 200
          THEN LoginRejected(a, dbs)
        ELSE IF env.find_one # "none"
          THEN LoginFail(env.find_one, dbs, "ok", NoSync, FALSE)
        ELSE found(a, find_by_email(dbs, email)) IN
  signed(fb_sign_in(fbs, email, password, env.signin))

\* login_user saving last_login before it looks at the sign-in's status
login_user_touching_first(fbs, dbs, email, password, now, env) ==
  LET synced(a, docs, r) ==
        IF r.exc # OK
          THEN LoginFail(r.exc, r.db, "ok", SyncNote(r), docs # {})
          ELSE [exc |-> OK,
                session |-> [user_id |-> a.uid, email |-> email,
                             email_verified |-> r.ret,
                             id_token |-> [kind |-> "good", uid |-> a.uid,
                                           email |-> email,
                                           email_verified |->
                                             fbs[a.uid].email_verified]],
                db |-> r.db, signin |-> "ok", sync |-> SyncNote(r),
                ticked |-> docs # {}, err |-> NoErr]
      found(a, docs) ==
        IF docs # {} /\ env.save # "none"
          THEN LoginFail(env.save, dbs, "ok", NoSync, TRUE)
          ELSE synced(a, docs,
                      sync_email_verification_status(
                        fbs, db_set_last_login(dbs, docs, now), a.uid, env.sync))
      rejected(a, docs) ==
        [LoginRejected(a, db_set_last_login(dbs, docs, now))
           EXCEPT !.ticked = docs # {}]
      signed(a) ==
        IF a.exc # OK THEN LoginFail(a.exc, dbs, "error", NoSync, FALSE)
        ELSE IF a.status # 200
          THEN rejected(a, find_by_email(dbs, email))
        ELSE IF env.find_one # "none"
          THEN LoginFail(env.find_one, dbs, "ok", NoSync, FALSE)
        ELSE found(a, find_by_email(dbs, email)) IN
  signed(fb_sign_in(fbs, email, password, env.signin))

\* FirebaseAuthService.login_user(login_data)
login_user(fbs, dbs, email, password, now, env) ==
  LET synced(a, docs, r) ==
        IF r.exc # OK
          THEN LoginFail(r.exc, r.db, "ok", SyncNote(r), docs # {})
          ELSE [exc |-> OK,
                session |-> [user_id |-> a.uid, email |-> email,
                             email_verified |-> r.ret,
                             id_token |-> [kind |-> "good", uid |-> a.uid,
                                           email |-> email,
                                           email_verified |->
                                             fbs[a.uid].email_verified]],
                db |-> r.db, signin |-> "ok", sync |-> SyncNote(r),
                ticked |-> docs # {}, err |-> NoErr]
      found(a, docs) ==
        IF docs # {} /\ env.save # "none"
          THEN LoginFail(env.save, dbs, "ok", NoSync, TRUE)
          ELSE synced(a, docs,
                      sync_email_verification_status(
                        fbs, db_set_last_login(dbs, docs, now), a.uid, env.sync))
      signed(a) ==
        IF a.exc # OK THEN LoginFail(a.exc, dbs, "error", NoSync, FALSE)
        ELSE IF a.status # 200
          THEN LoginRejected(a, dbs)
        ELSE IF env.find_one # "none"
          THEN LoginFail(env.find_one, dbs, "ok", NoSync, FALSE)
        ELSE found(a, find_by_email(dbs, email)) IN
  signed(fb_sign_in(fbs, email, password, env.signin))

\* what the securetoken endpoint answers: a transport error, a status, and on
\* 200 the new ID token and the user_id field of the response body
RefreshEnvs(fbs) ==
  {[post |-> "ConnectionError", status |-> 0, id_token |-> NoToken, user_id |-> 0,
    verify |-> "none"],
   [post |-> "none", status |-> 400, id_token |-> NoToken, user_id |-> 0,
    verify |-> "none"]}
  \cup [post : {"none"}, status : {200}, id_token : Tokens(fbs),
        user_id : 1..(Cardinality(DOMAIN fbs) + 1),
        verify : {"none", "FirebaseError"}]

\* refresh_token building the session from the endpoint's response body
refresh_token_raw(env) ==
  IF env.post # "none"
    THEN [exc |-> "TokenRefreshFailedException", session |-> NoSession]
  ELSE IF env.status # 200
    THEN [exc |-> "InvalidRefreshTokenException", session |-> NoSession]
  ELSE [exc |-> OK,
        session |-> [user_id |-> env.user_id,
                     email |-> env.id_token.email,
                     email_verified |-> env.id_token.email_verified,
                     id_token |-> env.id_token]]

\* FirebaseAuthService.refresh_token(refresh_token)
refresh_token(env) ==
  LET verified(v) ==
        IF v.exc # OK
          THEN [exc |-> IF IsA(v.exc, "InvalidRefreshTokenException") THEN v.exc
                        ELSE "TokenRefreshFailedException",
                session |-> NoSession,
                \* str(e) of the exception verify_token raised is its message
                err |-> IF IsA(v.exc, "InvalidRefreshTokenException") THEN v.err
                        ELSE RaisedWith("TokenRefreshFailedException",
                                        "Token refresh failed: ", v.err.leak)]
          ELSE [exc |-> OK,
                session |-> [user_id |-> v.claims.uid,
                             email |-> v.claims.email,
                             email_verified |-> v.claims.email_verified,
                             id_token |-> env.id_token],
                err |-> NoErr] IN
  IF env.post # "none"
    THEN [exc |-> "TokenRefreshFailedException", session |-> NoSession,
          err |-> RaisedWith("TokenRefreshFailedException",
                             "Token refresh failed: ", Str(env.post))]
  ELSE IF env.status # 200
    THEN [exc |-> "InvalidRefreshTokenException", session |-> NoSession,
          err |-> Raised("InvalidRefreshTokenException")]
  ELSE verified(verify_token(env.id_token, env.verify))

\* FirebaseAuthService.get_user_by_uid(uid)
get_user_by_uid(fbs, dbs, uid, env) ==
  LET u == fb_get_user(fbs, uid, env.get_user)
      docs == find_by_uid(dbs, uid)
      d == CHOOSE x \in docs : TRUE IN
  IF u.exc # OK
    THEN [exc |-> IF IsA(u.exc, "auth.UserNotFoundError")
                    THEN "UserNotFoundException"
                    ELSE "UserRetrievalFailedException",
          user |-> NoUser,
          err |-> IF IsA(u.exc, "auth.UserNotFoundError")
                    THEN Raised("UserNotFoundException")
                    ELSE RaisedWith("UserRetrievalFailedException",
                                    "Failed to retrieve user: ", Str(u.exc))]
  ELSE IF env.find_one # "none"
    THEN [exc |-> "UserRetrievalFailedException", user |-> NoUser,
          err |-> RaisedWith("UserRetrievalFailedException",
                             "Failed to retrieve user: ", Str(env.find_one))]
  ELSE IF docs = {}
    THEN [exc |-> "UserNotFoundInDatabaseException", user |-> NoUser,
          err |-> Raised("UserNotFoundInDatabaseException")]
  ELSE [exc |-> OK,
        user |-> [user_id |-> uid, email |-> u.email, username |-> d.username,
                  email_verified |-> u.email_verified,
                  last_login |-> d.last_login],
        err |-> NoErr]

\* POST accounts:update with the caller's ID token and the new password
fb_update_password(fbs, tok, password, fault) ==
  IF fault = "ConnectionError" THEN [exc |-> fault, status |-> 0, fb |-> fbs]
  ELSE IF fault # "none" THEN [exc |-> OK, status |-> 400, fb |-> fbs]
  ELSE IF tok.kind # "good" \/ tok.uid \notin DOMAIN fbs \/ ~fbs[tok.uid].alive
    THEN [exc |-> OK, status |-> 400, fb |-> fbs]
  ELSE [exc |-> OK, status |-> 200,
        fb |-> [fbs EXCEPT ![tok.uid].password = password]]

\* FirebaseAuthService.update_password(id_token, new_password)
update_password(fbs, tok, password, fault) ==
  LET r == fb_update_password(fbs, tok, password, fault) IN
  IF r.exc # OK
    THEN [exc |-> "PasswordUpdateFailedException", fb |-> fbs,
          err |-> RaisedWith("PasswordUpdateFailedException",
                             "Failed to update password: ", Str(r.exc))]
  ELSE IF r.status # 200
    THEN [exc |-> "PasswordUpdateFailedException", fb |-> fbs,
          err |-> Raised("PasswordUpdateFailedException")]
  ELSE [exc |-> OK, fb |-> r.fb, err |-> NoErr]

\* what the provider and the store answer during one delete_user
DeleteEnvs ==
  {e \in [delete_user : {"none", "FirebaseError"},
          find_one : {"none", "StoreError"},
          delete : {"none", "StoreError"}] :
     Cardinality({f \in {"delete_user", "find_one", "delete"} : e[f] # "none"}) <= 1}

DeleteOK == [delete_user |-> "none", find_one |-> "none", delete |-> "none"]

\* the except clauses of delete_user
delete_except(exc) ==
  IF IsA(exc, "auth.UserNotFoundError") THEN "UserNotFoundException"
  ELSE "UserDeletionFailedException"

\* the exception delete_user raises for one of class exc caught by them
delete_error(exc) ==
  IF IsA(exc, "auth.UserNotFoundError") THEN Raised("UserNotFoundException")
  ELSE RaisedWith("UserDeletionFailedException", "Failed to delete user: ",
                  Str(exc))

\* delete_user leaving the local record in place
delete_user_remote_only(fbs, dbs, uid, env) ==
  LET removed(r) ==
        IF r.exc # OK
          THEN [exc |-> delete_except(r.exc), err |-> delete_error(r.exc), fb |-> fbs, db |-> dbs,
                calls |-> <<"auth.delete_user">>]
          ELSE [exc |-> OK, err |-> NoErr, fb |-> r.fb, db |-> dbs,
                calls |-> <<"auth.delete_user">>] IN
  removed(fb_delete_user(fbs, uid, env.delete_user))

\* delete_user deleting the local record before the remote account
delete_user_local_first(fbs, dbs, uid, env) ==
  LET removed(docs, r) ==
        IF r.exc # OK
          THEN [exc |-> delete_except(r.exc), err |-> delete_error(r.exc), fb |-> fbs, db |-> dbs \ docs,
                calls |-> <<"find_one", "delete", "auth.delete_user">>]
          ELSE [exc |-> OK, err |-> NoErr, fb |-> r.fb, db |-> dbs \ docs,
                calls |-> <<"find_one", "delete", "auth.delete_user">>]
      found(docs) ==
        IF docs # {} /\ env.delete # "none"
          THEN [exc |-> delete_except(env.delete), err |-> delete_error(env.delete), fb |-> fbs, db |-> dbs,
                calls |-> <<"find_one", "delete">>]
          ELSE removed(docs, fb_delete_user(fbs, uid, env.delete_user)) IN
  IF env.find_one # "none"
    THEN [exc |-> delete_except(env.find_one), err |-> delete_error(env.find_one), fb |-> fbs, db |-> dbs,
          calls |-> <<"find_one">>]
    ELSE found(find_by_uid(dbs, uid))

\* FirebaseAuthService.delete_user(uid); calls lists the provider and store
\* calls it made, in order
delete_user(fbs, dbs, uid, env) ==
  LET found(r, docs) ==
        IF docs = {}
          THEN [exc |-> OK, err |-> NoErr, fb |-> r.fb, db |-> dbs,
                calls |-> <<"auth.delete_user", "find_one">>]
        ELSE IF env.delete # "none"
          THEN [exc |-> delete_except(env.delete), err |-> delete_error(env.delete), fb |-> r.fb, db |-> dbs,
                calls |-> <<"auth.delete_user", "find_one", "delete">>]
        ELSE [exc |-> OK, err |-> NoErr, fb |-> r.fb, db |-> dbs \ docs,
              calls |-> <<"auth.delete_user", "find_one", "delete">>]
      removed(r) ==
        IF r.exc # OK
          THEN [exc |-> delete_except(r.exc), err |-> delete_error(r.exc), fb |-> fbs, db |-> dbs,
                calls |-> <<"auth.delete_user">>]
        ELSE IF env.find_one # "none"
          THEN [exc |-> delete_except(env.find_one), err |-> delete_error(env.find_one), fb |-> r.fb, db |-> dbs,
                calls |-> <<"auth.delete_user", "find_one">>]
        ELSE found(r, find_by_uid(dbs, uid)) IN
  removed(fb_delete_user(fbs, uid, env.delete_user))

\* the one-time codes a callback can carry: one the provider issued for the
\* e-mail of an existing account, or one it does not know (email "")
OobCodes(fbs) ==
  {[email |-> fbs[u].email] : u \in {x \in DOMAIN fbs : fbs[x].alive}}
    \cup {[email |-> ""]}

\* what the provider and the store answer during one callback
CallbackEnvs ==
  {e \in [verify : {"none", "ConnectionError"},
          confirm : {"none", "ConnectionError", "INVALID_OOB_CODE"},
          find_one : {"none", "StoreError"},
          save : {"none", "StoreError"}] :
     Cardinality({f \in {"verify", "confirm", "find_one", "save"} :
                    e[f] # "none"}) <= 1}

CallbackOK == [verify |-> "none", confirm |-> "none", find_one |-> "none",
               save |-> "none"]

\* _verify_oob_code(oob_code): the e-mail of the code, or the exception raised
verify_oob_code(code, fault) ==
  IF fault # "none" THEN [exc |-> "Exception", email |-> ""]
  ELSE IF code.email = "" THEN [exc |-> "Exception", email |-> ""]
  ELSE [exc |-> OK, email |-> code.email]

\* _confirm_email_verification(oob_code): accounts:update applies the code
confirm_email_verification(fbs, code, fault) ==
  IF fault # "none" \/ code.email = "" THEN [exc |-> "Exception", fb |-> fbs]
  ELSE [exc |-> OK,
        fb |-> [u \in DOMAIN fbs |->
                  IF fbs[u].alive /\ fbs[u].email = code.email
                    THEN [fbs[u] EXCEPT !.email_verified = TRUE]
                    ELSE fbs[u]]]

\* the record of email with email_verified = True, as user.save() stores it
db_set_verified_by_email(dbs, email) ==
  {IF d.email = email THEN [d EXCEPT !.email_verified = TRUE] ELSE d : d \in dbs}

\* the callback updating the local record before the provider confirmed
callback_unconfirmed(fbs, dbs, code, env) ==
  LET confirmed(v, c) ==
        IF env.find_one # "none" \/ find_by_email(dbs, v.email) = {}
          THEN [page |-> "error", fb |-> c.fb, db |-> dbs]
        ELSE IF env.save # "none"
          THEN [page |-> "error", fb |-> c.fb, db |-> dbs]
        ELSE [page |-> IF c.exc # OK THEN "error" ELSE "success", fb |-> c.fb,
              db |-> db_set_verified_by_email(dbs, v.email)]
      verified(v) ==
        IF v.exc # OK \/ v.email = ""
          THEN [page |-> "error", fb |-> fbs, db |-> dbs]
          ELSE confirmed(v, confirm_email_verification(fbs, code, env.confirm)) IN
  verified(verify_oob_code(code, env.verify))

\* FirebaseAuthService.handle_email_verification_callback(oob_code)
handle_email_verification_callback(fbs, dbs, code, env) ==
  LET confirmed(v, c) ==
        IF c.exc # OK THEN [page |-> "error", fb |-> fbs, db |-> dbs]
        ELSE IF env.find_one # "none"
          THEN [page |-> "error", fb |-> c.fb, db |-> dbs]
        ELSE IF find_by_email(dbs, v.email) = {}
          THEN [page |-> "success", fb |-> c.fb, db |-> dbs]
        ELSE IF env.save # "none"
          THEN [page |-> "error", fb |-> c.fb, db |-> dbs]
        ELSE [page |-> "success", fb |-> c.fb,
              db |-> db_set_verified_by_email(dbs, v.email)]
      verified(v) ==
        IF v.exc # OK \/ v.email = ""
          THEN [page |-> "error", fb |-> fbs, db |-> dbs]
          ELSE confirmed(v, confirm_email_verification(fbs, code, env.confirm)) IN
  verified(verify_oob_code(code, env.verify))

----------------------------------------------------------------------------
(* The routes (routes.py). A route's result r carries the provider and the *)
(* store after it, the exception that reaches the client (exc) and what    *)
(* the handler did on the way.                                             *)

RouteRes(fbs, dbs) ==
  [exc |-> OK, dep |-> "", claims |-> NoClaims, fb |-> fbs, db |-> dbs,
   sync |-> NoSync, sync2 |-> NoSync, user |-> NoUser, session |-> NoSession,
   flag |-> FALSE, signin |-> "none", updated |-> FALSE, ticked |-> FALSE,
   calls |-> <<>>, err |-> NoErr]

\* what the provider and the store answer while the dependency runs
AuthEnvs ==
  {e \in [verify : {"none", "FirebaseError"}, sync : SyncEnvs] :
     e.verify = "none" \/ e.sync = SyncOK}

AuthOK == [verify |-> "none", sync |-> SyncOK]

\* security = HTTPBearer(): the credentials of the Authorization header, or
\* the framework's HTTPException when the header or its token is missing
security(cred) ==
  IF cred.kind \in {"absent", "empty"} THEN "HTTPException" ELSE OK

\* Depends(get_current_user), its credentials being Depends(security)
Dep(fbs, dbs, cred, env) ==
  LET of(g) ==
        [RouteRes(fbs, dbs) EXCEPT !.exc = g.exc, !.dep = g.exc,
                                   !.claims = g.claims, !.db = g.db,
                                   !.sync = g.sync, !.err = g.err] IN
  IF security(cred) # OK
    THEN [RouteRes(fbs, dbs) EXCEPT !.exc = security(cred),
                                    !.dep = security(cred),
                                    !.err = Raised(security(cred))]
    ELSE of(get_current_user(fbs, dbs, cred, env.verify, env.sync))

\* FirebaseAuthDependency.get_optional_user(credentials): claims = NoClaims
\* stands for the None it returns
get_optional_user(fbs, dbs, cred, vfault) ==
  LET verified(v) ==
        IF v.exc = OK
          THEN [exc |-> OK, claims |-> v.claims, db |-> dbs, sync |-> NoSync,
                err |-> NoErr]
        ELSE IF \/ IsA(v.exc, "InvalidTokenException")
                \/ IsA(v.exc, "ExpiredTokenException")
                \/ IsA(v.exc, "MissingTokenException")
          THEN [exc |-> OK, claims |-> NoClaims, db |-> dbs, sync |-> NoSync,
                err |-> NoErr]
        ELSE [exc |-> v.exc, claims |-> NoClaims, db |-> dbs, sync |-> NoSync,
              err |-> v.err] IN
  IF cred = NoToken
    THEN [exc |-> OK, claims |-> NoClaims, db |-> dbs, sync |-> NoSync,
          err |-> NoErr]
    ELSE verified(verify_token(cred, vfault))

\* Depends(get_optional_user), its credentials being Depends(security)
OptionalDep(fbs, dbs, cred, env) ==
  LET of(g) ==
        [RouteRes(fbs, dbs) EXCEPT !.exc = g.exc, !.dep = g.exc,
                                   !.claims = g.claims, !.db = g.db,
                                   !.sync = g.sync, !.err = g.err] IN
  IF security(cred) # OK
    THEN [RouteRes(fbs, dbs) EXCEPT !.exc = security(cred),
                                    !.dep = security(cred),
                                    !.err = Raised(security(cred))]
    ELSE of(get_optional_user(fbs, dbs, cred, env.verify))

\* GET /auth/verify-token
route_verify_token(fbs, dbs, cred, env) == Dep(fbs, dbs, cred, env.dep)

\* GET /auth/me
get_current_user_profile(fbs, dbs, cred, env) ==
  LET got(a, u) == [a EXCEPT !.exc = u.exc, !.user = u.user, !.err = u.err]
      authed(a) ==
        IF a.exc # OK THEN a
        ELSE got(a, get_user_by_uid(fbs, a.db, a.claims.uid, env.me)) IN
  authed(Dep(fbs, dbs, cred, env.dep))

\* POST /auth/sync-verification
sync_verification_status(fbs, dbs, cred, env) ==
  LET synced(a, r) ==
        [a EXCEPT !.exc = r.exc, !.db = r.db, !.flag = r.ret,
                  !.sync2 = SyncNote(r),
                  !.err = IF r.exc = OK THEN NoErr ELSE Raised(r.exc)]
      authed(a) ==
        IF a.exc # OK THEN a
        ELSE synced(a, sync_email_verification_status(fbs, a.db, a.claims.uid,
                                                      env.sync)) IN
  authed(Dep(fbs, dbs, cred, env.dep))

\* route_update_password going on to the update whatever login_user raised
route_update_password_no_reauth(fbs, dbs, cred, current_password, new_password, now, env) ==
  LET updated(a, l, p) ==
        [a EXCEPT !.exc = p.exc, !.fb = p.fb, !.db = l.db, !.signin = l.signin,
                  !.sync2 = l.sync, !.ticked = l.ticked,
                  !.updated = (p.exc = OK), !.err = p.err,
                  !.calls = <<"get_current_user_from_db", "login_user",
                              "update_password">>]
      loaded(a, u) ==
        IF u.exc # OK
          THEN [a EXCEPT !.exc = u.exc, !.err = u.err,
                         !.calls = <<"get_current_user_from_db">>]
        ELSE updated(a, login_user(fbs, a.db, (CHOOSE x \in u.docs : TRUE).email,
                                   current_password, now, env.login),
                     update_password(fbs, cred, new_password, env.update))
      authed(a) ==
        IF a.exc # OK THEN a
        ELSE loaded(a, get_current_user_from_db(a.db, a.claims, env.from_db)) IN
  authed(Dep(fbs, dbs, cred, env.dep))

\* POST /auth/password-update
route_update_password(fbs, dbs, cred, current_password, new_password, now, env) ==
  LET updated(a, l, p) ==
        [a EXCEPT !.exc = p.exc, !.fb = p.fb, !.db = l.db, !.signin = l.signin,
                  !.sync2 = l.sync, !.ticked = l.ticked,
                  !.updated = (p.exc = OK), !.err = p.err,
                  !.calls = <<"get_current_user_from_db", "login_user",
                              "update_password">>]
      logged(a, l) ==
        IF l.exc # OK
          THEN [a EXCEPT !.exc = IF \/ IsA(l.exc, "InvalidPasswordException")
                                   \/ IsA(l.exc, "InvalidCredentialsException")
                                  THEN "InvalidPasswordException"
                                  ELSE l.exc,
                         !.db = l.db, !.signin = l.signin, !.sync2 = l.sync,
                         !.ticked = l.ticked,
                         !.calls = <<"get_current_user_from_db", "login_user">>,
                         !.err = IF \/ IsA(l.exc, "InvalidPasswordException")
                                    \/ IsA(l.exc, "InvalidCredentialsException")
                                   THEN RaisedWith("InvalidPasswordException",
                                                   "Current password is incorrect",
                                                   "")
                                   ELSE l.err]
          ELSE updated(a, l, update_password(fbs, cred, new_password, env.update))
      loaded(a, u) ==
        IF u.exc # OK
          THEN [a EXCEPT !.exc = u.exc, !.err = u.err,
                         !.calls = <<"get_current_user_from_db">>]
        ELSE logged(a, login_user(fbs, a.db, (CHOOSE x \in u.docs : TRUE).email,
                                  current_password, now, env.login))
      authed(a) ==
        IF a.exc # OK THEN a
        ELSE loaded(a, get_current_user_from_db(a.db, a.claims, env.from_db)) IN
  authed(Dep(fbs, dbs, cred, env.dep))

\* FirebaseAuthDependency.require_verified_email(current_user)
require_verified_email(claims) ==
  IF ~claims.email_verified THEN "EmailNotVerifiedException" ELSE OK

\* DELETE /auth/me
delete_current_user(fbs, dbs, cred, env) ==
  LET deleted(a, r) ==
        [a EXCEPT !.exc = r.exc, !.fb = r.fb, !.db = r.db, !.calls = r.calls,
                  !.err = r.err]
      authed(a) ==
        IF a.exc # OK THEN a
        ELSE IF require_verified_email(a.claims) # OK
          THEN [a EXCEPT !.exc = require_verified_email(a.claims),
                         !.err = Raised(require_verified_email(a.claims))]
        ELSE deleted(a, delete_user(fbs, a.db, a.claims.uid, env.del)) IN
  authed(Dep(fbs, dbs, cred, env.dep))

\* what the provider and the store answer during one admin_verify_email
AdminEnvs ==
  {e \in [find_one : {"none", "StoreError"},
          update_user : {"none", "FirebaseError"},
          sync : SyncEnvs] :
     Cardinality({f \in {"find_one", "update_user"} : e[f] # "none"})
       + (IF e.sync = SyncOK THEN 0 ELSE 1) <= 1}

AdminOK == [find_one |-> "none", update_user |-> "none", sync |-> SyncOK]

\* firebase_auth.update_user(uid, email_verified=True)
fb_update_user(fbs, uid, fault) ==
  IF fault # "none" THEN [exc |-> fault, fb |-> fbs]
  ELSE IF uid \notin DOMAIN fbs \/ ~fbs[uid].alive
    THEN [exc |-> "auth.UserNotFoundError", fb |-> fbs]
  ELSE [exc |-> OK, fb |-> [fbs EXCEPT ![uid].email_verified = TRUE]]

\* the except clauses of admin_verify_email
admin_error(exc) ==
  IF IsA(exc, "UserNotFoundException") THEN Raised(exc)
  ELSE RaisedWith("OperationException", "Failed to verify email: ", Str(exc))

\* POST /auth/admin/verify-email/{email}
admin_verify_email(fbs, dbs, email, env) ==
  LET fail(exc, fbs2, dbs2, sync) ==
        [exc |-> admin_error(exc).class, err |-> admin_error(exc),
         fb |-> fbs2, db |-> dbs2, sync |-> sync]
      synced(u, r) ==
        IF r.exc # OK THEN fail(r.exc, u.fb, r.db, SyncNote(r))
        ELSE [exc |-> OK, err |-> NoErr, fb |-> u.fb, db |-> r.db,
              sync |-> SyncNote(r)]
      updated(uid, u) ==
        IF u.exc # OK THEN fail(u.exc, fbs, dbs, NoSync)
        ELSE synced(u, sync_email_verification_status(u.fb, dbs, uid, env.sync))
      found(docs) ==
        IF docs = {} THEN fail("UserNotFoundException", fbs, dbs, NoSync)
        ELSE updated((CHOOSE x \in docs : TRUE).firebase_uid,
                     fb_update_user(fbs, (CHOOSE x \in docs : TRUE).firebase_uid,
                                    env.update_user)) IN
  IF env.find_one # "none" THEN fail(env.find_one, fbs, dbs, NoSync)
  ELSE found(find_by_email(dbs, email))

\* register_user run from its call to its return, env naming each step's fault
RegSteps == {"find_one", "create_user", "insert", "exchange", "send_email", "cleanup"}

reg_step(s, env) ==
  CASE s.tk.pc = "find_one" -> reg_find_one(s, env["find_one"])
    [] s.tk.pc = "create_user" -> reg_create_user(s, env["create_user"])
    [] s.tk.pc = "insert" -> reg_insert(s, env["insert"])
    [] s.tk.pc = "exchange" -> reg_exchange(s, env["exchange"])
    [] s.tk.pc = "send_email" -> reg_send_email(s, env["send_email"])
    [] s.tk.pc = "cleanup" -> reg_cleanup(s, env["cleanup"])

RECURSIVE reg_run(_, _)
reg_run(s, env) == IF s.tk.pc = "done" THEN s ELSE reg_run(reg_step(s, env), env)

\* FirebaseAuthService.register_user(registration_data)
register_user(fbs, dbs, req, env) ==
  reg_run([fb |-> fbs, db |-> dbs,
           tk |-> [IdleTask EXCEPT !.pc = "find_one", !.req = req]], env)

----------------------------------------------------------------------------
(* SpecReg: two register_user coroutines                                   *)

\* no response in flight
NoResp == [op |-> "none", uid |-> 0, stale |-> FALSE]

\* the request answered before met no stale claim
NoPrev == [stale_uid |-> 0]

InitReg ==
  /\ fb = <<>>
  /\ db = {}
  /\ task = [t \in Tasks |-> IdleTask]
  /\ resp = NoResp
  /\ prev = NoPrev
  /\ clock = 0

St(t) == [fb |-> fb, db |-> db, tk |-> task[t]]

Commit(t, s) ==
  /\ fb' = s.fb
  /\ db' = s.db
  /\ task' = [task EXCEPT ![t] = s.tk]
  /\ UNCHANGED <<resp, prev, clock>>

\* the failures the store and the provider can answer a call with
StoreFaults == {"none", "StoreError"}
ProviderFaults == {"none", "FirebaseError"}

\* POST /auth/register reaches register_user
RegCall(t) ==
  /\ task[t].pc = "idle"
  /\ \E req \in RegRequests :
       task' = [task EXCEPT ![t] = [IdleTask EXCEPT !.pc = "find_one", !.req = req]]
  /\ UNCHANGED <<fb, db, resp, prev, clock>>

RegFindOne(t) ==
  /\ task[t].pc = "find_one"
  /\ \E f \in StoreFaults : Commit(t, reg_find_one(St(t), f))

RegCreateUser(t) ==
  /\ task[t].pc = "create_user"
  /\ \E f \in ProviderFaults : Commit(t, reg_create_user(St(t), f))

RegInsert(t) ==
  /\ task[t].pc = "insert"
  /\ \E f \in StoreFaults : Commit(t, reg_insert(St(t), f))

RegExchange(t) ==
  /\ task[t].pc = "exchange"
  /\ \E f \in ProviderFaults : Commit(t, reg_exchange(St(t), f))

\* what requests.post to sendOobCode answers or raises
SendFaults == {"none", "ConnectionError", "INVALID_ID_TOKEN"}

RegSendEmail(t) ==
  /\ task[t].pc = "send_email"
  /\ \E f \in SendFaults : Commit(t, reg_send_email(St(t), f))

RegCleanup(t) ==
  /\ task[t].pc = "cleanup"
  /\ \E f \in ProviderFaults : Commit(t, reg_cleanup(St(t), f))

\* an account's e-mail gets verified at the provider while registrations run
RegProviderVerifies ==
  /\ \E u \in DOMAIN fb :
       /\ fb[u].alive /\ ~fb[u].email_verified
       /\ fb' = [fb EXCEPT ![u].email_verified = TRUE]
  /\ UNCHANGED <<db, task, resp, prev, clock>>

NextReg ==
  \/ \E t \in Tasks :
       \/ RegCall(t)
       \/ RegFindOne(t)
       \/ RegCreateUser(t)
       \/ RegInsert(t)
       \/ RegExchange(t)
       \/ RegSendEmail(t)
       \/ RegCleanup(t)
  \/ RegProviderVerifies

SpecReg == InitReg /\ [][NextReg]_vars

----------------------------------------------------------------------------
(* Spec: the handlers, one request at a time. A handler runs from the      *)
(* request to its response; the response stays in flight (resp) until the  *)
(* client has received it (Reply).                                         *)

\* what the provider and the store held for uid before the request
PreOf(fbs, dbs, uid) ==
  LET docs == find_by_uid(dbs, uid)
      d == CHOOSE x \in docs : TRUE
      known == uid \in DOMAIN fbs IN
  [fb_alive |-> known /\ fbs[uid].alive,
   fb_ev |-> known /\ fbs[uid].email_verified,
   fb_password |-> IF known THEN fbs[uid].password ELSE "",
   db_has |-> docs # {},
   db_ev |-> docs # {} /\ d.email_verified,
   db_last_login |-> IF docs # {} THEN d.last_login ELSE 0]

\* a verified request whose token says unverified while the provider says
\* verified and the local record still says unverified
StaleScenario(cred, pre, env) ==
  /\ cred.kind = "good" /\ ~cred.email_verified
  /\ pre.fb_alive /\ pre.fb_ev
  /\ pre.db_has /\ ~pre.db_ev
  /\ env = AuthOK

Init ==
  /\ fb = <<>>
  /\ db = {}
  /\ task = [t \in Tasks |-> IdleTask]
  /\ resp = NoResp
  /\ prev = NoPrev
  /\ clock = 0

Ready == resp = NoResp

\* the handler returns: r is its result, q the response put in flight
Answer(r, q) ==
  /\ fb' = r.fb
  /\ db' = r.db
  /\ resp' = q
  /\ UNCHANGED <<task, prev>>

Kept(r) == [x \in (DOMAIN r) \ {"fb", "db"} |-> r[x]]

\* the client receives the response
Reply ==
  /\ ~Ready
  /\ resp' = NoResp
  /\ prev' = [stale_uid |-> IF resp.stale THEN resp.uid ELSE 0]
  /\ UNCHANGED <<fb, db, task, clock>>

NoRegFaults == [st \in RegSteps |-> "none"]

\* at most one failing call in the body, and possibly a failing cleanup
RegEnvs ==
  {[[NoRegFaults EXCEPT ![st] = f] EXCEPT !["cleanup"] = c] :
     st \in RegSteps \ {"cleanup"}, f \in {"none", "StoreError"},
     c \in {"none", "StoreError"}}

\* POST /auth/register
Register ==
  /\ Ready
  /\ Cardinality(DOMAIN fb) < MaxUid
  /\ \E req \in RegRequests, env \in RegEnvs :
       LET Done(s) ==
             Answer(s, [op |-> "register", uid |-> s.tk.uid, stale |-> FALSE,
                        req |-> req, env |-> env, tk |-> s.tk]) IN
       Done(register_user(fb, db, req, env))
  /\ UNCHANGED clock

\* the user completes the e-mail verification on the provider's side
ProviderVerifies ==
  /\ Ready
  /\ \E u \in DOMAIN fb :
       /\ fb[u].alive /\ ~fb[u].email_verified
       /\ fb' = [fb EXCEPT ![u].email_verified = TRUE]
  /\ prev' = NoPrev
  /\ UNCHANGED <<db, task, resp, clock>>

\* POST /auth/login
Login ==
  /\ Ready
  /\ clock < MaxClock
  /\ \E email \in Emails, password \in Passwords, env \in LoginEnvs :
       LET Done(r) ==
             /\ Answer([fb |-> fb, db |-> r.db],
                       [op |-> "login", uid |-> r.session.user_id,
                        stale |-> FALSE, email |-> email,
                        password |-> password, env |-> env,
                        pre |-> PreOf(fb, db, r.session.user_id),
                        r |-> Kept(r)])
             /\ clock' = IF r.ticked THEN clock + 1 ELSE clock IN
       Done(login_user(fb, db, email, password, clock + 1, env))

\* POST /auth/refresh
Refresh ==
  /\ Ready
  /\ \E env \in RefreshEnvs(fb) :
       LET Done(r) ==
             Answer([fb |-> fb, db |-> db],
                    [op |-> "refresh", uid |-> r.session.user_id,
                     stale |-> FALSE, env |-> env, r |-> r]) IN
       Done(refresh_token(env))
  /\ UNCHANGED clock

Credentials == Tokens(fb) \cup {NoToken, EmptyToken}

\* the response of an authenticated route
AuthKept(op, cred, env, r) ==
  LET pre == PreOf(fb, db, cred.uid) IN
  [op |-> op, uid |-> cred.uid, stale |-> StaleScenario(cred, pre, env.dep),
   tok |-> cred, env |-> env, pre |-> pre, r |-> Kept(r)]

\* GET /auth/verify-token
VerifyToken ==
  /\ Ready
  /\ \E cred \in Credentials, dep \in AuthEnvs :
       LET Done(r) == Answer(r, AuthKept("verify_token", cred, [dep |-> dep], r)) IN
       Done(route_verify_token(fb, db, cred, [dep |-> dep]))
  /\ UNCHANGED clock

MeOK == [get_user |-> "none", find_one |-> "none"]

MeEnvs ==
  {e \in [dep : AuthEnvs,
          me : [get_user : {"none", "FirebaseError"}, find_one : StoreFaults]] :
     e.dep = AuthOK \/ e.me = MeOK}

\* GET /auth/me
Me ==
  /\ Ready
  /\ \E cred \in Credentials, env \in MeEnvs :
       LET Done(r) == Answer(r, AuthKept("me", cred, env, r)) IN
       Done(get_current_user_profile(fb, db, cred, env))
  /\ UNCHANGED clock

SyncRouteEnvs ==
  {e \in [dep : AuthEnvs, sync : SyncEnvs] : e.dep = AuthOK \/ e.sync = SyncOK}

\* POST /auth/sync-verification
SyncVerification ==
  /\ Ready
  /\ \E cred \in Credentials, env \in SyncRouteEnvs :
       LET Done(r) == Answer(r, AuthKept("sync_verification", cred, env, r)) IN
       Done(sync_verification_status(fb, db, cred, env))
  /\ UNCHANGED clock

PasswordOK == [dep |-> AuthOK, from_db |-> "none", login |-> LoginOK,
               update |-> "none"]

PasswordEnvs ==
  {e \in [dep : AuthEnvs, from_db : StoreFaults, login : LoginEnvs,
          update : {"none", "ConnectionError", "INVALID_ID_TOKEN"}] :
     Cardinality({f \in DOMAIN PasswordOK : e[f] # PasswordOK[f]}) <= 1}

\* POST /auth/password-update
PasswordUpdate ==
  /\ Ready
  /\ clock < MaxClock
  /\ \E cred \in Credentials, cur \in Passwords, env \in PasswordEnvs :
     \E new \in Passwords \ {cur} :
       LET Done(r) ==
             /\ Answer(r, AuthKept("password_update", cred, env, r) @@
                          [current_password |-> cur, new_password |-> new])
             /\ clock' = IF r.ticked THEN clock + 1 ELSE clock IN
       Done(route_update_password(fb, db, cred, cur, new, clock + 1, env))

DeleteMeOK == [dep |-> AuthOK, del |-> DeleteOK]

DeleteMeEnvs ==
  {e \in [dep : AuthEnvs, del : DeleteEnvs] : e.dep = AuthOK \/ e.del = DeleteOK}

\* DELETE /auth/me
DeleteMe ==
  /\ Ready
  /\ \E cred \in Credentials, env \in DeleteMeEnvs :
       LET Done(r) == Answer(r, AuthKept("delete_me", cred, env, r)) IN
       Done(delete_current_user(fb, db, cred, env))
  /\ UNCHANGED clock

\* GET /auth/verify-email-callback?mode=verifyEmail
VerifyEmailCallback ==
  /\ Ready
  /\ \E code \in OobCodes(fb), env \in CallbackEnvs :
       LET Done(r) ==
             Answer(r, [op |-> "callback", uid |-> 0, stale |-> FALSE,
                        code |-> code, env |-> env, page |-> r.page,
                        had_record |-> find_by_email(db, code.email) # {},
                        was_verified |->
                          \E d \in find_by_email(db, code.email) :
                            d.email_verified]) IN
       Done(handle_email_verification_callback(fb, db, code, env))
  /\ UNCHANGED clock

\* POST /auth/admin/verify-email/{email}
AdminVerifyEmail ==
  /\ Ready
  /\ \E email \in Emails, env \in AdminEnvs :
       LET Done(r) ==
             Answer(r, [op |-> "admin_verify", uid |-> 0, stale |-> FALSE,
                        email |-> email, env |-> env, r |-> Kept(r)]) IN
       Done(admin_verify_email(fb, db, email, env))
  /\ UNCHANGED clock

\* a route that takes Depends(get_optional_user)
OptionalUser ==
  /\ Ready
  /\ \E cred \in Credentials, vf \in {"none", "FirebaseError"} :
       LET dep == [verify |-> vf, sync |-> SyncOK]
           Done(r) ==
             Answer(r, AuthKept("optional_user", cred, [dep |-> dep], r)) IN
       Done(OptionalDep(fb, db, cred, dep))
  /\ UNCHANGED clock

Next ==
  \/ Register
  \/ ProviderVerifies
  \/ Login
  \/ Refresh
  \/ VerifyToken
  \/ Me
  \/ SyncVerification
  \/ PasswordUpdate
  \/ Reply

Spec == Init /\ [][Next]_vars

----------------------------------------------------------------------------
(* SpecAcct: the life of an account, from registration over verification   *)
(* to deletion. SpecAll: every handler.                                    *)

NextAcct ==
  \/ Register
  \/ ProviderVerifies
  \/ VerifyToken
  \/ DeleteMe
  \/ VerifyEmailCallback
  \/ Reply

SpecAcct == Init /\ [][NextAcct]_vars

NextAll ==
  \/ Register
  \/ ProviderVerifies
  \/ Login
  \/ Refresh
  \/ VerifyToken
  \/ Me
  \/ SyncVerification
  \/ PasswordUpdate
  \/ DeleteMe
  \/ VerifyEmailCallback
  \/ AdminVerifyEmail
  \/ OptionalUser
  \/ Reply

SpecAll == Init /\ [][NextAll]_vars

\* SpecRec: the handlers that write a local record after its creation
NextRec ==
  \/ Register
  \/ ProviderVerifies
  \/ Login
  \/ SyncVerification
  \/ PasswordUpdate
  \/ VerifyEmailCallback
  \/ AdminVerifyEmail
  \/ Reply

SpecRec == Init /\ [][NextRec]_vars

\* SpecOpt: accounts and the requests of a route with optional authentication
NextOpt ==
  \/ Register
  \/ ProviderVerifies
  \/ OptionalUser
  \/ Reply

SpecOpt == Init /\ [][NextOpt]_vars

----------------------------------------------------------------------------
(* Properties of register_user                                             *)

Returned(t) == task[t].pc = "done"

\* both calls have returned, for one username and two emails
SameNameRace ==
  /\ \A t \in Tasks : Returned(t)
  /\ task[1].req.username = task[2].req.username
  /\ task[1].req.email # task[2].req.email

\* the store and the provider answered every call according to their state
NoFaults == \A t \in Tasks : task[t].faults = {}

\* C1: when the insert fails after the remote account was created, the call
\* passes exactly that account's uid to auth.delete_user and returns
\* RegistrationFailed; if the delete succeeded the account is gone.
C1_CompensationOnInsertFailure ==
  \A t \in Tasks :
    (Returned(t) /\ task[t].insert_failed) =>
      /\ task[t].out = "RegistrationFailedException"
      /\ task[t].uid \in DOMAIN fb
      /\ task[t].del_uid = task[t].uid
      /\ (task[t].del_ok => ~fb[task[t].uid].alive)

C1_Witness ==
  \E t \in Tasks :
    /\ Returned(t) /\ task[t].insert_failed
    /\ "insert" \in task[t].faults
    /\ task[t].del_ok /\ ~fb[task[t].uid].alive

\* C2: two calls with one username and two emails, the unique index alone
\* deciding the insert: one returns a session, the other fails with
\* UsernameAlreadyExists.
C2_ExactlyOneWinner ==
  (SameNameRace /\ NoFaults) =>
    \E w \in Tasks : \E l \in Tasks \ {w} :
      /\ task[w].out = "session"
      /\ task[l].out = "UsernameAlreadyExistsException"

\* C3: once both calls of such a race have returned, every remote account
\* that still exists has a local record with its uid, provided the provider
\* did not fail a compensating delete.
C3_NoOrphanRemote ==
  (SameNameRace /\ \A t \in Tasks : "cleanup" \notin task[t].faults) =>
    \A u \in DOMAIN fb : fb[u].alive => find_by_uid(db, u) # {}

C3_Witness ==
  /\ SameNameRace /\ NoFaults
  /\ \E w \in Tasks : \E l \in Tasks \ {w} :
       /\ task[w].out = "session"
       /\ task[l].insert_failed /\ task[l].del_ok
       /\ ~fb[task[l].uid].alive

----------------------------------------------------------------------------
(* Properties of the handlers                                              *)

AuthOps == {"verify_token", "me", "sync_verification", "password_update",
            "delete_me"}

\* the request in flight passed verify_token in the dependency
Verified ==
  /\ resp.op \in AuthOps
  /\ resp.tok.kind = "good"
  /\ resp.env.dep.verify = "none"

\* the local record of uid, if any, says verified
LocalVerified(uid) ==
  \E d \in find_by_uid(db, uid) : d.email_verified

\* C4: refresh_token returns a session only for a new ID token that passed
\* verification in that call, and the session's user_id, email and
\* email_verified are the token's verified claims, not the response body's.
C4_RefreshSessionFromVerifiedClaims ==
  (resp.op = "refresh" /\ resp.r.exc = OK) =>
    /\ resp.env.status = 200
    /\ resp.env.id_token.kind = "good"
    /\ resp.env.verify = "none"
    /\ resp.r.session.user_id = resp.env.id_token.uid
    /\ resp.r.session.email = resp.env.id_token.email
    /\ resp.r.session.email_verified = resp.env.id_token.email_verified

C4_Witness ==
  /\ resp.op = "refresh" /\ resp.r.exc = OK
  /\ resp.env.user_id # resp.env.id_token.uid
  /\ resp.r.session.user_id = resp.env.id_token.uid

\* C5: a refresh whose endpoint answers 200 with a forged new ID token fails
\* with InvalidTokenException (INVALID_TOKEN).
C5_ForgedRefreshIsInvalidToken ==
  (/\ resp.op = "refresh"
   /\ resp.env.post = "none" /\ resp.env.status = 200
   /\ resp.env.id_token.kind = "forged" /\ resp.env.verify = "none") =>
    resp.r.exc = "InvalidTokenException"

\* C6: when the token verifies and the reconciliation fails, get_current_user
\* still returns, and returns the token's claims unchanged.
C6_ReconcileFailureKeepsClaims ==
  (Verified /\ resp.r.sync.called /\ resp.r.sync.failed) =>
    /\ resp.r.dep = OK
    /\ resp.r.claims = ClaimsOf(resp.tok)
    /\ (resp.op = "verify_token" => resp.r.exc = OK)

C6_Witness ==
  /\ Verified /\ resp.op = "verify_token"
  /\ resp.r.sync.exc = "UserNotFoundException"
  /\ resp.r.exc = OK /\ resp.r.claims = ClaimsOf(resp.tok)

\* C7: after a successful sign-in, whatever fails inside the reconciliation,
\* login_user returns a session, with email_verified = false.
C7_LoginSwallowsReconcileFailure ==
  (/\ resp.op = "login" /\ resp.r.signin = "ok"
   /\ resp.r.sync.called /\ resp.r.sync.failed) =>
    /\ resp.r.exc = OK
    /\ resp.r.session.email_verified = FALSE

\* C8: two reconciliations of one uid in a row, the provider and the store
\* answering both according to their state: at most one store write, none by
\* the second, and the same outcome both times.
C8_ReconcileIdempotent ==
  (/\ resp.op = "sync_verification"
   /\ resp.r.sync.called /\ resp.r.sync2.called
   /\ resp.env.dep.sync = SyncOK /\ resp.env.sync = SyncOK) =>
    /\ resp.r.sync.writes + resp.r.sync2.writes <= 1
    /\ resp.r.sync2.writes = 0
    /\ resp.r.sync2.exc = resp.r.sync.exc
    /\ resp.r.sync2.ret = resp.r.sync.ret

C8_Witness ==
  /\ resp.op = "sync_verification"
  /\ resp.env.dep.sync = SyncOK /\ resp.env.sync = SyncOK
  /\ resp.r.sync.writes = 1 /\ resp.r.sync2.called
  /\ resp.r.sync2.writes = 0 /\ resp.r.sync2.ret = resp.r.sync.ret

\* C9: a request whose token says unverified while the provider says verified
\* and the local record says unverified leaves the local record verified, and
\* the GET /auth/me that follows it returns email_verified = true.
C9_StaleClaimCorrected ==
  /\ (resp.op \in AuthOps /\ resp.stale) => LocalVerified(resp.uid)
  /\ (/\ resp.op = "me" /\ Verified
      /\ resp.uid # 0 /\ prev.stale_uid = resp.uid
      /\ resp.env.dep = AuthOK /\ resp.env.me = MeOK) =>
       /\ resp.r.exc = OK
       /\ resp.r.user.email_verified
       /\ LocalVerified(resp.uid)

C9_Witness ==
  /\ resp.op = "me" /\ Verified
  /\ resp.uid # 0 /\ prev.stale_uid = resp.uid
  /\ ~resp.tok.email_verified
  /\ resp.r.exc = OK /\ resp.r.user.email_verified
  /\ LocalVerified(resp.uid)

\* C10: password update succeeds with the correct current password, and
\* whenever the re-verifying sign-in fails (rejected by the provider, or failed
\* in transport) the caller receives InvalidPassword.
C10_PasswordUpdateReauth ==
  resp.op = "password_update" =>
    /\ (resp.r.signin \in {"rejected", "error"} =>
          resp.r.exc = "InvalidPasswordException")
    /\ (/\ Verified /\ resp.env = PasswordOK
        /\ resp.pre.fb_alive /\ resp.pre.db_has
        /\ resp.current_password = resp.pre.fb_password) =>
          (resp.r.exc = OK /\ resp.r.updated)

\* C11: a login that succeeds with an error-free reconciliation answers with
\* the flag the provider's user record held during that login, whatever the
\* local record said before.
C11_LoginFlagIsProviderFlag ==
  (/\ resp.op = "login" /\ resp.r.exc = OK
   /\ resp.r.sync.called /\ ~resp.r.sync.failed) =>
    resp.r.session.email_verified = resp.pre.fb_ev

C11_Witness ==
  /\ resp.op = "login" /\ resp.r.exc = OK
  /\ resp.r.sync.called /\ ~resp.r.sync.failed
  /\ resp.pre.fb_ev /\ resp.pre.db_has /\ ~resp.pre.db_ev
  /\ resp.r.session.email_verified

\* C12: a request whose token has a valid signature and is past its expiry is
\* answered ExpiredTokenException, one whose token is forged
\* InvalidTokenException.
C12_ExpiredDistinctFromInvalid ==
  (resp.op \in AuthOps /\ resp.env.dep.verify = "none") =>
    /\ (resp.tok.kind = "expired" => resp.r.exc = "ExpiredTokenException")
    /\ (resp.tok.kind = "forged" => resp.r.exc = "InvalidTokenException")

\* C13: a request without a bearer token, or with an empty one, is answered
\* MissingTokenException, and no reconciliation ran for it.
C13_MissingCredential ==
  (resp.op \in AuthOps /\ resp.tok.kind \in {"absent", "empty"}) =>
    /\ resp.r.exc = "MissingTokenException"
    /\ ~resp.r.sync.called

\* the handler in flight called x on the provider or the store
Called(x) == \E i \in DOMAIN resp.r.calls : resp.r.calls[i] = x

\* C14: DELETE /auth/me, nothing failing, for an existing account: denied with
\* EmailNotVerifiedException when the provider's flag is false, carried out
\* when it is true, whatever the token's embedded flag says.
C14_DeleteNeedsReconciledVerified ==
  (/\ resp.op = "delete_me" /\ Verified /\ resp.env = DeleteMeOK
   /\ resp.pre.fb_alive) =>
    /\ (~resp.pre.fb_ev => resp.r.exc = "EmailNotVerifiedException")
    /\ (resp.pre.fb_ev => resp.r.exc = OK /\ ~fb[resp.uid].alive)

\* C15: after delete_user returned success neither the remote account nor a
\* local record of that uid exists, and a step that removes a local record is
\* a delete_user that called the store's delete.
C15_DeleteRemovesBoth ==
  /\ []((resp.op = "delete_me" /\ resp.r.exc = OK) =>
          (/\ ~fb[resp.uid].alive
           /\ find_by_uid(db, resp.uid) = {}))
  /\ [][(\E d \in db : find_by_uid(db', d.firebase_uid) = {}) =>
          (resp'.op = "delete_me" /\ resp'.r.calls # <<>>
           /\ resp'.r.calls[Len(resp'.r.calls)] = "delete")]_vars

C15_Witness ==
  /\ resp.op = "delete_me" /\ resp.r.exc = OK
  /\ resp.pre.fb_alive /\ resp.pre.db_has
  /\ ~fb[resp.uid].alive /\ find_by_uid(db, resp.uid) = {}

\* C16: delete_user calls the provider's delete first and touches the store
\* only after it succeeded; with the remote account deleted and no local
\* record, it returns success.
C16_RemoteFirstIdempotentTail ==
  (resp.op = "delete_me" /\ resp.r.calls # <<>>) =>
    /\ resp.r.calls[1] = "auth.delete_user"
    /\ (Called("find_one") \/ Called("delete")) =>
         (resp.pre.fb_alive /\ ~fb[resp.uid].alive)
    /\ (resp.pre.db_has /\ find_by_uid(db, resp.uid) = {}) =>
         ~fb[resp.uid].alive
    /\ (/\ resp.pre.fb_alive /\ ~resp.pre.db_has
        /\ resp.env.del.delete_user = "none"
        /\ resp.env.del.find_one = "none") => resp.r.exc = OK

C16_Witness ==
  /\ resp.op = "delete_me" /\ resp.r.exc = OK
  /\ resp.pre.fb_alive /\ ~resp.pre.db_has
  /\ resp.r.calls = <<"auth.delete_user", "find_one">>
  /\ ~fb[resp.uid].alive

----------------------------------------------------------------------------
(* Further properties of register_user                                     *)

\* C17: a lookup that finds a record of the requested username ends the call
\* with UsernameAlreadyExistsException, and that step changes neither the
\* provider nor the store; the call created and deleted no remote account.
C17_ExistingUsernameNoSideEffect ==
  [][\A t \in Tasks :
       (/\ task[t].pc = "find_one" /\ task'[t] # task[t]
        /\ "find_one" \notin task'[t].faults
        /\ find_by_username(db, task[t].req.username) # {}) =>
         /\ task'[t].pc = "done"
         /\ task'[t].out = "UsernameAlreadyExistsException"
         /\ task'[t].uid = 0 /\ task'[t].del_uid = 0
         /\ fb' = fb /\ db' = db]_vars

C17_Witness ==
  \E t \in Tasks :
    /\ Returned(t) /\ task[t].out = "UsernameAlreadyExistsException"
    /\ task[t].faults = {} /\ task[t].uid = 0 /\ task[t].del_uid = 0
    /\ find_by_username(db, task[t].req.username) # {}
    /\ \A u \in DOMAIN fb : fb[u].alive

\* C18: the remote account is created unverified, the local record is created
\* unverified, and a returned session says unverified, whatever the
\* provider's record says by then.
C18_FreshAccountUnverified ==
  /\ [](\A t \in Tasks :
          (Returned(t) /\ task[t].out = "session") => ~task[t].session_ev)
  /\ [][\A t \in Tasks :
          /\ (task[t].pc = "create_user" /\ task'[t].pc = "insert") =>
               ~fb'[task'[t].uid].email_verified
          /\ (task[t].pc = "insert" /\ task'[t].inserted) =>
               \A d \in find_by_uid(db', task'[t].uid) : ~d.email_verified]_vars

C18_Witness ==
  \E t \in Tasks :
    /\ Returned(t) /\ task[t].out = "session" /\ ~task[t].session_ev
    /\ fb[task[t].uid].email_verified
    /\ \E d \in find_by_uid(db, task[t].uid) : ~d.email_verified

----------------------------------------------------------------------------
(* Properties of the e-mail verification callback                          *)

\* the callback in flight after this step had its code verified and confirmed
\* by the provider
CodeAccepted ==
  /\ resp'.code.email # ""
  /\ resp'.env.verify = "none" /\ resp'.env.confirm = "none"

\* C20: a callback changes the local store only when the provider verified
\* and confirmed its code; when either failed the store is unchanged and the
\* error page is returned; when both succeeded and no local record has the
\* e-mail, the success page is returned and the store is unchanged.
C20_CallbackFlipsOnlyWhenConfirmed ==
  [][resp'.op = "callback" =>
       /\ db' # db => CodeAccepted
       /\ ~CodeAccepted => (resp'.page = "error" /\ db' = db)
       /\ (CodeAccepted /\ ~resp'.had_record
           /\ resp'.env.find_one = "none") =>
            (resp'.page = "success" /\ db' = db)
       /\ \A d \in db' : \E e \in db :
            /\ e.firebase_uid = d.firebase_uid
            /\ (d.email_verified /\ ~e.email_verified) => d.email = resp'.code.email]_vars

C20_Witness ==
  /\ resp.op = "callback" /\ resp.page = "success"
  /\ resp.env = CallbackOK /\ resp.had_record /\ ~resp.was_verified
  /\ \E d \in find_by_email(db, resp.code.email) : d.email_verified

----------------------------------------------------------------------------
(* Properties of error reporting                                           *)

\* the steps of register_user's body whose failure no except clause names
RegBodySteps == {"find_one", "create_user", "insert", "exchange"}

\* the service of the request in flight met a failure of the provider or the
\* store that none of its except clauses names, and raised
Unclassified ==
  \/ resp.op = "register" /\ resp.tk.faults \cap RegBodySteps # {}
  \/ /\ resp.op = "login" /\ resp.r.exc # OK
     /\ \/ resp.env.signin = "ConnectionError"
        \/ resp.env.find_one # "none"
        \/ resp.env.save # "none"
  \/ /\ resp.op = "refresh"
     /\ (resp.env.post # "none" \/ resp.env.verify # "none")
  \/ resp.op = "me" /\ resp.r.dep = OK /\ resp.env.me # MeOK
  \/ /\ resp.op = "delete_me" /\ resp.r.calls # <<>> /\ resp.r.exc # OK
     /\ resp.env.del # DeleteOK

\* the exception the request in flight ended with
ErrOf == IF resp.op = "register" THEN resp.tk.err ELSE resp.r.err

\* C21: for a failure inside register_user, login_user, refresh_token,
\* get_user_by_uid or delete_user that none of its except clauses names, the
\* body sent to the client has the code INTERNAL_SERVER_ERROR and neither its
\* message nor its details carry the text of the exception caught.
C21_UnclassifiedFailureOpaque ==
  Unclassified =>
    /\ tether_exception_handler(ErrOf).error_code = "INTERNAL_SERVER_ERROR"
    /\ tether_exception_handler(ErrOf).error.leak = ""
    /\ tether_exception_handler(ErrOf).details = ""

\* C22: a call whose compensating delete failed still returns
\* RegistrationFailedException, and the exception reports the failure that
\* led to the compensation (the insert's or the exchange's), not the delete's.
C22_CleanupFailureNotSurfaced ==
  \A t \in Tasks :
    (Returned(t) /\ "cleanup" \in task[t].faults) =>
      /\ task[t].out = "RegistrationFailedException"
      /\ task[t].err = RaisedWithDetails("RegistrationFailedException",
                                         "Registration failed: ",
                                         Str(task[t].cause))
      /\ task[t].insert_failed =>
           task[t].cause = IF "insert" \in task[t].faults THEN "StoreError"
                           ELSE "DuplicateKeyError"
      /\ ~task[t].insert_failed =>
           ("exchange" \in task[t].faults /\ task[t].cause = "FirebaseError")

C22_Witness ==
  \E t \in Tasks :
    /\ Returned(t) /\ task[t].faults = {"insert", "cleanup"}
    /\ task[t].out = "RegistrationFailedException"
    /\ task[t].err.leak = "StoreError"
    /\ ~task[t].del_ok /\ fb[task[t].uid].alive

----------------------------------------------------------------------------
(* Further properties of login_user and of the reconciliation              *)

\* C23: after a successful sign-in, a store failure while reading or saving
\* the local record for the last_login update does not fail the login: a
\* session is returned.
C23_LastLoginBestEffort ==
  (/\ resp.op = "login" /\ resp.r.signin = "ok"
   /\ (resp.env.find_one # "none" \/ resp.env.save # "none")) =>
    /\ resp.r.exc = OK
    /\ resp.r.session # NoSession

\* C24: a reconciliation that finds no local record of the uid returns the
\* provider's flag and writes nothing: the store after it is the store before
\* it.
C24_AbsentRecordNoWrite ==
  [][(/\ resp'.op \in AuthOps /\ Verified'
      /\ resp'.pre.fb_alive /\ ~resp'.pre.db_has
      /\ resp'.env.dep.sync.get_user = "none"
      /\ resp'.env.dep.sync.find_one = "none") =>
       /\ resp'.r.sync.called
       /\ resp'.r.sync.exc = OK
       /\ resp'.r.sync.ret = resp'.pre.fb_ev
       /\ resp'.r.sync.writes = 0
       /\ db' = db]_vars

C24_Witness ==
  /\ resp.op = "verify_token" /\ Verified /\ resp.env.dep = AuthOK
  /\ resp.pre.fb_alive /\ resp.pre.fb_ev /\ ~resp.pre.db_has
  /\ resp.r.sync.called /\ resp.r.sync.ret /\ resp.r.sync.writes = 0
  /\ find_by_uid(db, resp.uid) = {}

\* the store with the record of uid, if any, set to the flag v
StoreWithFlag(dbs, uid, v) ==
  {IF d.firebase_uid = uid THEN [d EXCEPT !.email_verified = v] ELSE d :
     d \in dbs}

\* C25: a reconciliation the provider and the store answer according to their
\* state writes if and only if a local record exists whose email_verified
\* differs from the provider's flag; the write sets that record's
\* email_verified to the provider's flag and changes nothing else, and
\* without a write the store is unchanged.
C25_WriteIffDiffers ==
  [][(/\ resp'.op = "verify_token" /\ Verified'
      /\ resp'.pre.fb_alive /\ resp'.env.dep.sync = SyncOK) =>
       /\ resp'.r.sync.called
       /\ (resp'.r.sync.writes = 1) <=>
            (resp'.pre.db_has /\ resp'.pre.db_ev # resp'.pre.fb_ev)
       /\ resp'.r.sync.writes \in {0, 1}
       /\ resp'.r.sync.writes = 1 =>
            (db' # db /\ db' = StoreWithFlag(db, resp'.uid, resp'.pre.fb_ev))
       /\ resp'.r.sync.writes = 0 => db' = db]_vars

C25_Witness ==
  /\ resp.op = "verify_token" /\ Verified /\ resp.env.dep = AuthOK
  /\ resp.pre.fb_alive /\ resp.pre.db_has
  /\ resp.pre.db_ev # resp.pre.fb_ev
  /\ resp.r.sync.writes = 1
  /\ \A d \in find_by_uid(db, resp.uid) : d.email_verified = resp.pre.fb_ev

\* what the provider answers the sign-in of the login answered by this step
SignInAnswer == fb_sign_in(fb, resp'.email, resp'.password, resp'.env.signin)

\* C26: a login whose sign-in the provider answers with a non-success
\* response, whatever its error code, fails with InvalidCredentialsException,
\* whose message is the formatted provider code; it returns no session, runs
\* no reconciliation and leaves the store, last_login included, unchanged.
C26_RejectedSignInNoEffect ==
  [][(/\ resp'.op = "login"
      /\ SignInAnswer.exc = OK /\ SignInAnswer.status # 200) =>
       /\ resp'.r.exc = "InvalidCredentialsException"
       /\ resp'.r.err.class = "InvalidCredentialsException"
       /\ resp'.r.err.fmt = format_firebase_error(SignInAnswer.code)
       /\ resp'.r.err.leak = ""
       /\ resp'.r.session = NoSession
       /\ ~resp'.r.sync.called
       /\ ~resp'.r.ticked
       /\ db' = db /\ clock' = clock]_vars

C26_Witness ==
  /\ resp.op = "login" /\ resp.env.signin = "TOO_MANY_ATTEMPTS_TRY_LATER"
  /\ resp.r.exc = "InvalidCredentialsException"
  /\ resp.r.err.fmt = "Too many failed attempts. Please try again later"
  /\ \E u \in DOMAIN fb :
       /\ fb[u].alive /\ fb[u].email = resp.email
       /\ fb[u].password = resp.password
  /\ \E d \in find_by_email(db, resp.email) : d.last_login = 0
  /\ ~resp.r.sync.called

----------------------------------------------------------------------------
(* Properties of the local record                                          *)

\* C27: no step changes the firebase_uid of a local record: a record that
\* exists before and after a step (username is its unique key, set at
\* creation and never written) has the same firebase_uid, and a record a step
\* creates carries the uid of the account the call created.
C27_FirebaseUidImmutable ==
  [][/\ \A d \in db : \A e \in db' :
          e.username = d.username => e.firebase_uid = d.firebase_uid
     /\ \A e \in db' \ db :
          (\A d \in db : d.username # e.username) =>
            (resp'.op = "register" /\ e.firebase_uid = resp'.tk.uid)]_vars

C27_Witness ==
  /\ resp.op = "admin_verify" /\ resp.r.exc = OK /\ resp.r.sync.writes = 1
  /\ \E d \in db :
       /\ d.email = resp.email /\ d.email_verified /\ d.last_login > 0
       /\ d.firebase_uid \in DOMAIN fb
       /\ fb[d.firebase_uid].email = d.email

----------------------------------------------------------------------------
(* The order of the steps of the workflows                                 *)

\* C28: a register_user call makes its calls in the order uniqueness check,
\* remote creation, local insert, token exchange, verification e-mail: it
\* reaches each only from the one before, after that one succeeded. A remote
\* account appears only in a creation step, a local record only in an insert
\* step of a call whose remote account exists.
C28_RegisterStepOrder ==
  [][/\ \A t \in Tasks :
          task'[t].pc # task[t].pc =>
            /\ task'[t].pc = "find_one" => task[t].pc = "idle"
            /\ task'[t].pc = "create_user" =>
                 /\ task[t].pc = "find_one"
                 /\ "find_one" \notin task'[t].faults
                 /\ find_by_username(db, task[t].req.username) = {}
            /\ task'[t].pc = "insert" =>
                 /\ task[t].pc = "create_user"
                 /\ task[t].uid = 0 /\ task'[t].uid \in DOMAIN fb' \ DOMAIN fb
            /\ task'[t].pc = "exchange" =>
                 /\ task[t].pc = "insert"
                 /\ task'[t].inserted /\ ~task'[t].insert_failed
                 /\ find_by_uid(db', task[t].uid) # {}
                 /\ find_by_uid(db, task[t].uid) = {}
            /\ task'[t].pc = "send_email" =>
                 /\ task[t].pc = "exchange"
                 /\ "exchange" \notin task'[t].faults
                 /\ task[t].inserted
     /\ DOMAIN fb' # DOMAIN fb =>
          \E t \in Tasks : task[t].pc = "create_user" /\ task'[t].pc = "insert"
     /\ db' # db =>
          \E t \in Tasks :
            /\ task[t].pc = "insert" /\ task'[t].pc = "exchange"
            /\ task[t].uid \in DOMAIN fb /\ fb[task[t].uid].alive]_vars

C28_Witness ==
  \E t \in Tasks :
    /\ Returned(t) /\ task[t].out = "session" /\ task[t].faults = {}
    /\ task[t].inserted /\ fb[task[t].uid].alive
    /\ \E d \in find_by_uid(db, task[t].uid) :
         d.username = task[t].req.username
    /\ \E o \in Tasks \ {t} : task[o].pc = "idle"

\* C29: a password update calls the provider's update only after the sign-in
\* with the local record's e-mail and the supplied current password succeeded
\* in that request; the update changes the password of the account of the
\* caller's token and nothing else; a caller without a local record is
\* answered UserNotFoundInDatabaseException before any sign-in or update.
C29_UpdateAfterReauth ==
  [][resp'.op = "password_update" =>
       /\ Called("update_password")' =>
            /\ resp'.r.calls = <<"get_current_user_from_db", "login_user",
                                  "update_password">>
            /\ resp'.r.signin = "ok"
            /\ resp'.env.login.signin = "none"
            /\ \E d \in find_by_uid(db, resp'.tok.uid) : \E u \in DOMAIN fb :
                 /\ fb[u].alive /\ fb[u].email = d.email
                 /\ fb[u].password = resp'.current_password
       /\ ~Called("update_password")' => (fb' = fb /\ ~resp'.r.updated)
       /\ resp'.r.updated =>
            fb' = [fb EXCEPT ![resp'.tok.uid].password = resp'.new_password]
       /\ fb' # fb => resp'.r.updated
       /\ (resp'.r.dep = OK /\ ~resp'.pre.db_has /\ resp'.env.from_db = "none") =>
            /\ resp'.r.exc = "UserNotFoundInDatabaseException"
            /\ resp'.r.calls = <<"get_current_user_from_db">>
            /\ resp'.r.signin = "none"
            /\ fb' = fb /\ db' = db]_vars

C29_Witness ==
  /\ resp.op = "password_update" /\ resp.r.exc = OK /\ resp.r.updated
  /\ resp.r.signin = "ok" /\ Called("update_password")
  /\ resp.pre.fb_password = resp.current_password
  /\ fb[resp.uid].password = resp.new_password

\* the reconciliations the authenticated request in flight ran: the
\* dependency's and the route body's
SyncCount ==
  (IF resp.r.sync.called THEN 1 ELSE 0) + (IF resp.r.sync2.called THEN 1 ELSE 0)

\* C30: every authenticated request whose token verified ran exactly one
\* reconciliation, POST /auth/sync-verification and POST /auth/password-update
\* included, and every successful login ran exactly one.
C30_ReconcileOncePerRequest ==
  /\ (resp.op \in AuthOps /\ Verified) => SyncCount = 1
  /\ (resp.op = "login" /\ resp.r.exc = OK) => resp.r.sync.called

----------------------------------------------------------------------------
(* Properties of what a workflow leaves behind                             *)

\* C31: once a call of register_user has returned with a failure, the store
\* holds no record that the call inserted, also when the failure came after
\* the insert (custom token or session exchange); and if its compensating
\* delete succeeded, the remote account it created is gone as well.
C31_FailedRegistrationLeavesNoRecord ==
  \A t \in Tasks :
    (Returned(t) /\ task[t].out # "session") =>
      /\ task[t].inserted => find_by_uid(db, task[t].uid) = {}
      /\ task[t].del_ok => ~fb[task[t].uid].alive

----------------------------------------------------------------------------
(* SpecConc: requests for one user running concurrently. Each request is a *)
(* coroutine that advances by one provider or store call per step, as in   *)
(* SpecReg; a document read by find_one stays in the coroutine's memory    *)
(* until its save() writes it back.                                        *)

\* no document in memory
NoDoc == [username |-> "", email |-> "", firebase_uid |-> 0,
          email_verified |-> FALSE, last_login |-> 0]

\* a request that has not arrived
IdleReq ==
  [pc |-> "idle", kind |-> "", uid |-> 0, email |-> "", password |-> "",
   ev |-> FALSE, doc |-> NoDoc, fresh |-> FALSE, faults |-> {}]

\* await doc.save(): the stored document of doc's identity becomes doc
db_save(dbs, doc) == (dbs \ find_by_uid(dbs, doc.firebase_uid)) \cup {doc}

\* the request returns (or raises): nothing more is called
req_done(s) == [s EXCEPT !.tk.pc = "done"]

\* sync_email_verification_status is entered for uid
sync_enter(s, uid) ==
  [s EXCEPT !.tk.pc = "get_user", !.tk.uid = uid,
            !.tk.fresh = s.fb[uid].email_verified]

\* firebase_user = auth.get_user(uid)
\* email_verified = firebase_user.email_verified
sync_get_user(s0, fault) ==
  LET s == noted(s0, "get_user", fault)
      u == fb_get_user(s.fb, s.tk.uid, fault) IN
  IF u.exc # OK THEN req_done(s)
  ELSE [s EXCEPT !.tk.ev = u.email_verified, !.tk.pc = "find_one"]

\* db_user = await Users.find_one(Users.firebase_uid == uid)
\* if db_user: if db_user.email_verified != email_verified:
\*   db_user.email_verified = email_verified
sync_find_one(s0, fault) ==
  LET s == noted(s0, "find_one", fault)
      docs == find_by_uid(s.db, s.tk.uid)
      d == CHOOSE x \in docs : TRUE IN
  IF fault # "none" \/ docs = {} THEN req_done(s)
  ELSE IF d.email_verified # s.tk.ev
    THEN [s EXCEPT !.tk.doc = [d EXCEPT !.email_verified = s.tk.ev],
                   !.tk.pc = "save"]
  ELSE req_done(s)

\* await db_user.save()
sync_save(s0, fault) ==
  LET s == noted(s0, "save", fault) IN
  IF fault # "none" THEN req_done(s)
  ELSE req_done([s EXCEPT !.db = db_save(s.db, s.tk.doc)])

\* login_user: response = requests.post(signInWithPassword); uid = localId
login_sign_in(s0, fault) ==
  LET s == noted(s0, "sign_in", fault)
      a == fb_sign_in(s.fb, s.tk.email, s.tk.password, fault) IN
  IF a.exc # OK \/ a.status # 200 THEN req_done(s)
  ELSE [s EXCEPT !.tk.uid = a.uid, !.tk.pc = "login_find_one"]

\* user = await Users.find_one(Users.email == login_data.email)
\* if user: user.last_login = datetime.utcnow()
login_find_one(s0, now, fault) ==
  LET s == noted(s0, "login_find_one", fault)
      docs == find_by_email(s.db, s.tk.email)
      d == CHOOSE x \in docs : TRUE IN
  IF fault # "none" THEN req_done(s)
  ELSE IF docs = {} THEN sync_enter(s, s.tk.uid)
  ELSE [s EXCEPT !.tk.doc = [d EXCEPT !.last_login = now],
                 !.tk.pc = "login_save"]

\* await user.save(); then sync_email_verification_status(uid)
login_save(s0, fault) ==
  LET s == noted(s0, "login_save", fault) IN
  IF fault # "none" THEN req_done(s)
  ELSE sync_enter([s EXCEPT !.db = db_save(s.db, s.tk.doc)], s.tk.uid)

\* callback: firebase_response = await self._verify_oob_code(oob_code)
cb_verify_oob(s0, fault) ==
  LET s == noted(s0, "verify_oob", fault)
      v == verify_oob_code([email |-> s.tk.email], fault) IN
  IF v.exc # OK \/ v.email = "" THEN req_done(s)
  ELSE [s EXCEPT !.tk.pc = "confirm"]

\* await self._confirm_email_verification(oob_code)
cb_confirm(s0, fault) ==
  LET s == noted(s0, "confirm", fault)
      c == confirm_email_verification(s.fb, [email |-> s.tk.email], fault) IN
  IF c.exc # OK THEN req_done(s)
  ELSE [s EXCEPT !.fb = c.fb, !.tk.pc = "cb_find_one"]

\* user = await Users.find_one(Users.email == email)
\* if user: user.email_verified = True
cb_find_one(s0, fault) ==
  LET s == noted(s0, "cb_find_one", fault)
      docs == find_by_email(s.db, s.tk.email)
      d == CHOOSE x \in docs : TRUE IN
  IF fault # "none" \/ docs = {} THEN req_done(s)
  ELSE [s EXCEPT !.tk.doc = [d EXCEPT !.email_verified = TRUE],
                 !.tk.pc = "cb_save"]

\* await user.save()
cb_save(s0, fault) ==
  LET s == noted(s0, "cb_save", fault) IN
  IF fault # "none" THEN req_done(s)
  ELSE req_done([s EXCEPT !.db = db_save(s.db, s.tk.doc)])

\* the account of the requests: registered, not yet verified
ConcRequest == [username |-> "alice", email |-> "a@x", password |-> "pw1"]

InitConc ==
  /\ fb = register_user(<<>>, {}, ConcRequest, NoRegFaults).fb
  /\ db = register_user(<<>>, {}, ConcRequest, NoRegFaults).db
  /\ task = [t \in Tasks |-> IdleReq]
  /\ resp = NoResp
  /\ prev = NoPrev
  /\ clock = 0

\* a request with a valid bearer token reaches get_current_user, which
\* verifies the token and enters the reconciliation
SyncCall(t) ==
  /\ task[t].pc = "idle"
  /\ \E u \in DOMAIN fb :
       /\ fb[u].alive
       /\ Commit(t, sync_enter([St(t) EXCEPT !.tk.kind = "sync"], u))

\* POST /auth/login reaches login_user
LoginCall(t) ==
  /\ task[t].pc = "idle"
  /\ \E email \in {fb[u].email : u \in DOMAIN fb}, password \in Passwords :
       task' = [task EXCEPT ![t] = [IdleReq EXCEPT !.pc = "sign_in",
                                                    !.kind = "login",
                                                    !.email = email,
                                                    !.password = password]]
  /\ UNCHANGED <<fb, db, resp, prev, clock>>

\* GET /auth/verify-email-callback reaches the callback's handler
CallbackCall(t) ==
  /\ task[t].pc = "idle"
  /\ \E code \in OobCodes(fb) :
       task' = [task EXCEPT ![t] = [IdleReq EXCEPT !.pc = "verify_oob",
                                                    !.kind = "callback",
                                                    !.email = code.email]]
  /\ UNCHANGED <<fb, db, resp, prev, clock>>

SyncGetUser(t) ==
  /\ task[t].pc = "get_user"
  /\ \E f \in ProviderFaults : Commit(t, sync_get_user(St(t), f))

SyncFindOne(t) ==
  /\ task[t].pc = "find_one"
  /\ \E f \in StoreFaults : Commit(t, sync_find_one(St(t), f))

SyncSave(t) ==
  /\ task[t].pc = "save"
  /\ \E f \in StoreFaults : Commit(t, sync_save(St(t), f))

LoginSignIn(t) ==
  /\ task[t].pc = "sign_in"
  /\ \E f \in {"none", "ConnectionError"} : Commit(t, login_sign_in(St(t), f))

\* datetime.utcnow() answers a later time at every call
LoginFindOne(t) ==
  /\ task[t].pc = "login_find_one"
  /\ clock < MaxClock
  /\ \E f \in StoreFaults :
       LET Done(s) ==
             /\ fb' = s.fb
             /\ db' = s.db
             /\ task' = [task EXCEPT ![t] = s.tk]
             /\ clock' = IF s.tk.pc = "login_save" THEN clock + 1 ELSE clock IN
       Done(login_find_one(St(t), clock + 1, f))
  /\ UNCHANGED <<resp, prev>>

LoginSave(t) ==
  /\ task[t].pc = "login_save"
  /\ \E f \in StoreFaults : Commit(t, login_save(St(t), f))

CbVerifyOob(t) ==
  /\ task[t].pc = "verify_oob"
  /\ \E f \in {"none", "ConnectionError"} : Commit(t, cb_verify_oob(St(t), f))

CbConfirm(t) ==
  /\ task[t].pc = "confirm"
  /\ \E f \in {"none", "ConnectionError"} : Commit(t, cb_confirm(St(t), f))

CbFindOne(t) ==
  /\ task[t].pc = "cb_find_one"
  /\ \E f \in StoreFaults : Commit(t, cb_find_one(St(t), f))

CbSave(t) ==
  /\ task[t].pc = "cb_save"
  /\ \E f \in StoreFaults : Commit(t, cb_save(St(t), f))

NextConc ==
  \/ \E t \in Tasks :
       \/ SyncCall(t)
       \/ LoginCall(t)
       \/ CallbackCall(t)
       \/ SyncGetUser(t)
       \/ SyncFindOne(t)
       \/ SyncSave(t)
       \/ LoginSignIn(t)
       \/ LoginFindOne(t)
       \/ LoginSave(t)
       \/ CbVerifyOob(t)
       \/ CbConfirm(t)
       \/ CbFindOne(t)
       \/ CbSave(t)
  \/ RegProviderVerifies

SpecConc == InitConc /\ [][NextConc]_vars

\* no request is between its call and its return
Quiescent == \A t \in Tasks : task[t].pc \in {"idle", "done"}

\* a stored flag that is true stays true in the step
FlagKept ==
  \A d \in db : d.email_verified =>
    \A e \in find_by_uid(db', d.firebase_uid) : e.email_verified

\* a reconciliation entered when the provider's flag was already true has
\* returned, every call of its request answered
FreshSyncDone ==
  \E t \in Tasks :
    task[t].pc = "done" /\ task[t].fresh /\ task[t].faults = {}

\* C32: whatever the interleaving of the reconciliations (from
\* get_current_user or login_user) and the callbacks for one user, no step
\* changes the local record's email_verified from true to false, and when no
\* request is in flight, the provider's flag is true and a reconciliation
\* entered after it became true has returned, the local flag is true.
C32_LocalFlagMonotonic ==
  /\ [][FlagKept]_vars
  /\ [](\A u \in DOMAIN fb :
          (Quiescent /\ fb[u].email_verified /\ FreshSyncDone) =>
            \A d \in find_by_uid(db, u) : d.email_verified)

\* C33: after a delete_user(uid) that raised (UserNotFoundException or
\* UserDeletionFailedException) for a uid whose remote account and local
\* record both existed or were both absent before the call, they still both
\* exist or are both absent; no local record is left without its remote
\* account.
C33_FailedDeleteConsistent ==
  (/\ resp.op = "delete_me" /\ resp.r.calls # <<>> /\ resp.r.exc # OK
   /\ resp.pre.fb_alive = resp.pre.db_has) =>
    fb[resp.uid].alive = (find_by_uid(db, resp.uid) # {})

----------------------------------------------------------------------------
(* Further properties of register_user's outcome                           *)

\* the e-mail of call t's request belongs to a remote account
EmailTaken(t) ==
  \E u \in DOMAIN fb : fb[u].alive /\ fb[u].email = task[t].req.email

\* C34: a compensating delete is passed the uid of the account its own call
\* created; and when the provider rejects auth.create_user because an account
\* holds the e-mail, the call ends with EmailAlreadyExistsException in that
\* step, which changes neither the provider's accounts nor the store: no
\* account is deleted, none created, no record inserted.
C34_EmailExistsNoCompensation ==
  /\ [](\A t \in Tasks :
          /\ task[t].del_uid # 0 => task[t].del_uid = task[t].uid
          /\ (Returned(t) /\ task[t].out = "EmailAlreadyExistsException") =>
               /\ task[t].uid = 0 /\ task[t].del_uid = 0
               /\ ~task[t].inserted /\ ~task[t].insert_failed)
  /\ [][\A t \in Tasks :
          (/\ task[t].pc = "create_user" /\ task'[t] # task[t]
           /\ "create_user" \notin task'[t].faults
           /\ EmailTaken(t)) =>
            /\ task'[t].pc = "done"
            /\ task'[t].out = "EmailAlreadyExistsException"
            /\ task'[t].err = Raised("EmailAlreadyExistsException")
            /\ fb' = fb /\ db' = db]_vars

C34_Witness ==
  \E t \in Tasks :
    /\ Returned(t) /\ task[t].out = "EmailAlreadyExistsException"
    /\ task[t].faults = {} /\ task[t].uid = 0 /\ task[t].del_uid = 0
    /\ EmailTaken(t)
    /\ find_by_username(db, task[t].req.username) = {}
    /\ \A u \in DOMAIN fb : fb[u].alive

\* the record register_user builds for request req and the account uid
NewRecord(req, uid) ==
  [username |-> req.username, email |-> req.email, firebase_uid |-> uid,
   email_verified |-> FALSE, last_login |-> 0]

\* C35: a register_user that returns a session has added exactly one remote
\* account and exactly one local record and changed nothing else: the
\* account's uid is the session's user_id and the record's firebase_uid, the
\* account's e-mail and the record's username and e-mail are the request's.
C35_SuccessCreatesOnePair ==
  [][(resp'.op = "register" /\ resp.op = "none"
      /\ resp'.tk.out = "session") =>
       /\ resp'.uid \notin DOMAIN fb
       /\ DOMAIN fb' = DOMAIN fb \cup {resp'.uid}
       /\ \A v \in DOMAIN fb : fb'[v] = fb[v]
       /\ fb'[resp'.uid].alive
       /\ fb'[resp'.uid].email = resp'.req.email
       /\ NewRecord(resp'.req, resp'.uid) \notin db
       /\ db' = db \cup {NewRecord(resp'.req, resp'.uid)}]_vars

C35_Witness ==
  /\ resp.op = "register" /\ resp.tk.out = "session"
  /\ resp.tk.faults = {} /\ resp.uid = resp.tk.uid
  /\ fb[resp.uid].alive /\ fb[resp.uid].email = resp.req.email
  /\ find_by_uid(db, resp.uid) = {NewRecord(resp.req, resp.uid)}
  /\ find_by_username(db, resp.req.username) = find_by_uid(db, resp.uid)

----------------------------------------------------------------------------
(* Properties of the optional authentication                               *)

\* C36: a request through get_optional_user never fails: without credentials,
\* or with a token that does not verify (forged, expired, or the check
\* itself failing), the route receives no user; with a token that verifies it
\* receives the token's claims; no reconciliation runs and the store is not
\* written.
C36_OptionalUserNeverFails ==
  /\ []((resp.op = "optional_user") =>
          /\ resp.r.exc = OK
          /\ (resp.tok.kind = "good" /\ resp.env.dep.verify = "none") =>
               resp.r.claims = ClaimsOf(resp.tok)
          /\ (resp.tok.kind # "good" \/ resp.env.dep.verify # "none") =>
               resp.r.claims = NoClaims
          /\ ~resp.r.sync.called /\ ~resp.r.sync2.called)
  /\ [][(resp'.op = "optional_user" /\ resp.op = "none") => db' = db]_vars

----------------------------------------------------------------------------
(* Further properties of the password update                               *)

\* C37: a password update whose re-verifying sign-in the provider rejected
\* is answered InvalidPasswordException without a call of update_password:
\* the account's password is the one it had before the request, and the
\* last_login of the caller's local record is the one it had (no utcnow()
\* was taken for it).
C37_RejectedUpdateChangesNothing ==
  (resp.op = "password_update" /\ resp.r.signin = "rejected") =>
    /\ resp.r.exc = "InvalidPasswordException"
    /\ ~Called("update_password") /\ ~resp.r.updated
    /\ fb[resp.uid].password = resp.pre.fb_password
    /\ fb[resp.uid].alive = resp.pre.fb_alive
    /\ ~resp.r.ticked
    /\ resp.pre.db_has
    /\ \A d \in find_by_uid(db, resp.uid) :
         d.last_login = resp.pre.db_last_login

C37_Witness ==
  /\ resp.op = "password_update" /\ resp.r.signin = "rejected"
  /\ resp.env = PasswordOK
  /\ resp.current_password # resp.pre.fb_password
  /\ resp.r.exc = "InvalidPasswordException"
  /\ resp.r.calls = <<"get_current_user_from_db", "login_user">>
  /\ fb[resp.uid].password = resp.pre.fb_password
  /\ \E d \in find_by_uid(db, resp.uid) :
       d.last_login = resp.pre.db_last_login

====
